---- MODULE Spec2Model ----
(***************************************************************************)
(* The ProxyDHCP negotiation loop of the netboot server                    *)
(* (server/dhcp.go, Server.serveDHCP and the functions it calls) over the  *)
(* DHCP packet socket (dhcp4/conn.go), and its TFTP handlers               *)
(* (server/tftp.go).                                                       *)
(*                                                                         *)
(* Spec is the negotiation loop. SpecResolver, SpecSend and SpecTFTP run   *)
(* interfaceIP, SendDHCP and the TFTP handlers on their own, on inputs the *)
(* loop does not produce; SpecClient is the loop serving one booting       *)
(* client.                                                                 *)
(*                                                                         *)
(* Text (Go strings: hardware addresses, IP addresses, file names, the     *)
(* user-class value) is a sequence of one-character strings, so that       *)
(* formatting is computed character by character. Binary option values     *)
(* are sequences of bytes 0..255. A nil Go slice and an empty one are      *)
(* both << >>; an absent option is a code outside DOMAIN Options.          *)
(***************************************************************************)
EXTENDS Integers, Sequences, FiniteSets, TLC

(***************************************************************************)
(* Bounds of the model.                                                    *)
(***************************************************************************)
\* transaction ids are 0..MaxXid
MaxXid == 1
\* undecodable datagrams RecvDHCP skips in a row before the next outcome
MaxSkip == 1

(***************************************************************************)
(* Constants of the program.                                               *)
(***************************************************************************)
\* dhcp4 message types (RFC 2131 values)
MsgDiscover == 1
MsgOffer == 2
MsgRequest == 3

\* dhcp4 option codes
OptVendorSpecific == 43
OptServerIdentifier == 54
OptVendorIdentifier == 60
OptUserClass == 77
OptClientSystem == 93
OptUidGuidClientIdentifier == 97

\* constants.Firmware, the type codes the boot filenames print. 0 (BIOS-PXE)
\* and 7 (EFI64) are the codes of the specification's examples
\* ("de:ad:be:ef:00:01/0", "00:11:22:33:44:55/7"); the others are distinct
\* numbers.
FirmwareX86PC == 0
FirmwareEFI32 == 1
FirmwareEFI64 == 7
FirmwareEFIBC == 3
FirmwareX86Ipxe == 4
FirmwarePixiecoreIpxe == 5
FirmwareEfiArm64 == 6

\* constants.Architecture
ArchIA32 == 0
ArchX64 == 1
ArchArm64 == 2

\* Server.HTTPPort, injected configuration
HTTPPort == 80

\* the nil error
Nil == "<nil>"

(***************************************************************************)
(* Text formatting: fmt's %d, net.HardwareAddr.String, net.IP.String.      *)
(***************************************************************************)
DecDigits == <<"0", "1", "2", "3", "4", "5", "6", "7", "8", "9">>

HexDigits ==
    <<"0", "1", "2", "3", "4", "5", "6", "7", "8", "9", "a", "b", "c", "d", "e", "f">>

RECURSIVE Itoa(_)
\* fmt "%d" of a non-negative integer
Itoa(n) ==
    IF n < 10 THEN <<DecDigits[n + 1]>>
    ELSE Itoa(n \div 10) \o <<DecDigits[(n % 10) + 1]>>

HexByte(b) == <<HexDigits[(b \div 16) + 1], HexDigits[(b % 16) + 1]>>

RECURSIVE MacString(_)
\* net.HardwareAddr.String: lower-case hex bytes joined by ":"
MacString(mac) ==
    IF Len(mac) = 0 THEN << >>
    ELSE IF Len(mac) = 1 THEN HexByte(mac[1])
    ELSE HexByte(mac[1]) \o <<":">> \o MacString(Tail(mac))

\* net.IP.String of an IPv4 address; "<nil>" for the nil address
IPString(ip) ==
    IF Len(ip) = 0 THEN <<"<", "n", "i", "l", ">">>
    ELSE Itoa(ip[1]) \o <<".">> \o Itoa(ip[2]) \o <<".">> \o Itoa(ip[3])
         \o <<".">> \o Itoa(ip[4])

\* strings.HasPrefix
HasPrefix(s, prefix) ==
    /\ Len(s) >= Len(prefix)
    /\ SubSeq(s, 1, Len(prefix)) = prefix

(***************************************************************************)
(* dhcp4.Options: a map from option code to bytes.                         *)
(***************************************************************************)
NoOptions == << >>

HasOption(o, n) == n \in DOMAIN o

\* o[n] of a Go map: the nil slice when n is not a key
OptionValue(o, n) == IF n \in DOMAIN o THEN o[n] ELSE << >>

\* Options.Uint16: the option as a big-endian 16-bit number
OptionsUint16(o, n) ==
    IF ~HasOption(o, n) THEN [v |-> 0, err |-> "option not present in Options"]
    ELSE IF Len(o[n]) # 2 THEN [v |-> 0, err |-> "option value is the wrong size"]
    ELSE [v |-> o[n][1] * 256 + o[n][2], err |-> Nil]

\* Options.String: the option's bytes as text
OptionsString(o, n) ==
    IF ~HasOption(o, n) THEN [v |-> << >>, err |-> "option not present in Options"]
    ELSE [v |-> o[n], err |-> Nil]

\* Options.Marshal of a one-option map {n: val}: code, length, value, terminator
MarshalOption(n, val) ==
    IF Len(val) > 255 THEN [bs |-> << >>, err |-> "DHCP option has value >255 bytes"]
    ELSE [bs |-> <<n, Len(val)>> \o val \o <<255>>, err |-> Nil]

(***************************************************************************)
(* dhcp4.Packet, types.Machine.                                            *)
(***************************************************************************)
\* the zero Packet
ZeroPacket ==
    [Type |-> 0, TransactionID |-> 0, Broadcast |-> FALSE,
     HardwareAddr |-> << >>, ClientAddr |-> << >>, YourAddr |-> << >>,
     ServerAddr |-> << >>, RelayAddr |-> << >>,
     BootServerName |-> << >>, BootFilename |-> << >>, Options |-> NoOptions]

\* the zero Machine
ZeroMachine == [MAC |-> << >>, Arch |-> 0]

(***************************************************************************)
(* Server.isBootDHCP                                                       *)
(***************************************************************************)
isBootDHCP_TypeOnly(pkt) ==
    IF pkt.Type # MsgDiscover THEN "packet is not DHCPDISCOVER" ELSE Nil

isBootDHCP(pkt) ==
    IF pkt.Type # MsgDiscover THEN "packet is not DHCPDISCOVER"
    ELSE IF ~HasOption(pkt.Options, OptClientSystem)
         THEN "not a PXE boot request (missing option 93)"
    ELSE Nil

(***************************************************************************)
(* Server.validateDHCP                                                     *)
(***************************************************************************)
rpiPrefixes_Four ==
    << <<"2", "8", ":", "c", "d", ":", "c", "1", ":">>,
       <<"b", "8", ":", "2", "7", ":", "e", "b", ":">>,
       <<"d", "8", ":", "3", "a", ":", "d", "d", ":">>,
       <<"d", "c", ":", "a", "6", ":", "3", "2", ":">> >>

rpiPrefixes ==
    << <<"2", "8", ":", "c", "d", ":", "c", "1", ":">>,
       <<"b", "8", ":", "2", "7", ":", "e", "b", ":">>,
       <<"d", "8", ":", "3", "a", ":", "d", "d", ":">>,
       <<"d", "c", ":", "a", "6", ":", "3", "2", ":">>,
       <<"e", "4", ":", "5", "f", ":", "0", "1", ":">> >>

hasAnyPrefix(s, prefixes) ==
    \E i \in 1..Len(prefixes) : HasPrefix(s, prefixes[i])

UnsupportedFirmware(fwt) ==
    "unsupported client firmware type '" \o ToString(fwt) \o "'"

\* the switch on the PXE architecture option: 6 and 7 exchanged
ArchTable_Swapped(fwt) ==
    CASE fwt = 0 -> [Arch |-> ArchIA32, fwtype |-> FirmwareX86PC, err |-> Nil]
      [] fwt = 6 -> [Arch |-> ArchX64, fwtype |-> FirmwareEFI64, err |-> Nil]
      [] fwt = 7 -> [Arch |-> ArchIA32, fwtype |-> FirmwareEFI32, err |-> Nil]
      [] fwt = 9 -> [Arch |-> ArchX64, fwtype |-> FirmwareEFIBC, err |-> Nil]
      [] fwt = 11 -> [Arch |-> ArchArm64, fwtype |-> FirmwareEfiArm64, err |-> Nil]
      [] fwt = 16 -> [Arch |-> 0, fwtype |-> 0,
                      err |-> "unsupported client firmware type (probably http4 x64 efi boot)"]
      [] fwt = 19 -> [Arch |-> 0, fwtype |-> 0,
                      err |-> "unsupported client firmware type (probably http4 arm64 efi boot)"]
      [] OTHER -> [Arch |-> 0, fwtype |-> 0, err |-> UnsupportedFirmware(fwt)]

\* the switch on the PXE architecture option
ArchTable(fwt) ==
    CASE fwt = 0 -> [Arch |-> ArchIA32, fwtype |-> FirmwareX86PC, err |-> Nil]
      [] fwt = 6 -> [Arch |-> ArchIA32, fwtype |-> FirmwareEFI32, err |-> Nil]
      [] fwt = 7 -> [Arch |-> ArchX64, fwtype |-> FirmwareEFI64, err |-> Nil]
      [] fwt = 9 -> [Arch |-> ArchX64, fwtype |-> FirmwareEFIBC, err |-> Nil]
      [] fwt = 11 -> [Arch |-> ArchArm64, fwtype |-> FirmwareEfiArm64, err |-> Nil]
      [] fwt = 16 -> [Arch |-> 0, fwtype |-> 0,
                      err |-> "unsupported client firmware type (probably http4 x64 efi boot)"]
      [] fwt = 19 -> [Arch |-> 0, fwtype |-> 0,
                      err |-> "unsupported client firmware type (probably http4 arm64 efi boot)"]
      [] OTHER -> [Arch |-> 0, fwtype |-> 0, err |-> UnsupportedFirmware(fwt)]

StrIPXE == <<"i", "P", "X", "E">>
StrPixiecore == <<"p", "i", "x", "i", "e", "c", "o", "r", "e">>

\* the user-class refinement, promoting to iPXE whatever the firmware type
RefineUserClass_AnyType(o, fwtype) ==
    LET uc == OptionsString(o, OptUserClass)
    IN  IF uc.err # Nil THEN fwtype
        ELSE IF uc.v = StrPixiecore THEN FirmwarePixiecoreIpxe
        ELSE IF uc.v = StrIPXE THEN FirmwareX86Ipxe
        ELSE fwtype

\* the user-class refinement, without the case of "pixiecore"
RefineUserClass_NoPixiecore(o, fwtype) ==
    LET uc == OptionsString(o, OptUserClass)
    IN  IF uc.err # Nil THEN fwtype
        ELSE IF uc.v = StrIPXE /\ fwtype = FirmwareX86PC THEN FirmwareX86Ipxe
        ELSE fwtype

\* the user-class refinement of the firmware type
RefineUserClass(o, fwtype) ==
    LET uc == OptionsString(o, OptUserClass)
        fw1 == IF uc.v = StrIPXE /\ fwtype = FirmwareX86PC THEN FirmwareX86Ipxe
               ELSE fwtype
    IN  IF uc.err # Nil THEN fwtype
        ELSE IF uc.v = StrPixiecore THEN FirmwarePixiecoreIpxe
        ELSE fw1

\* the switch on len(guid), without the test of the leading byte
CheckGUID_AnyLead(guid) ==
    CASE Len(guid) = 0 -> Nil
      [] Len(guid) = 17 -> Nil
      [] OTHER -> "malformed client GUID (option 97), wrong size"

\* the switch on len(guid)
CheckGUID(guid) ==
    CASE Len(guid) = 0 -> Nil
      [] Len(guid) = 17 ->
            IF guid[1] # 0
            THEN "malformed client GUID (option 97), leading byte must be zero"
            ELSE Nil
      [] OTHER -> "malformed client GUID (option 97), wrong size"

validateDHCP(pkt) ==
    LET fwt == OptionsUint16(pkt.Options, OptClientSystem)
        t == ArchTable(fwt.v)
        fw == RefineUserClass(pkt.Options, t.fwtype)
        gerr == CheckGUID(OptionValue(pkt.Options, OptUidGuidClientIdentifier))
    IN  IF fwt.err # Nil
        THEN [mach |-> ZeroMachine, fwtype |-> 0,
              err |-> "malformed DHCP option 93 (required for PXE): " \o fwt.err]
        ELSE IF hasAnyPrefix(MacString(pkt.HardwareAddr), rpiPrefixes) /\ fwt.v = 0
        THEN [mach |-> ZeroMachine, fwtype |-> 0, err |-> UnsupportedFirmware(fwt.v)]
        ELSE IF t.err # Nil
        THEN [mach |-> ZeroMachine, fwtype |-> 0, err |-> t.err]
        ELSE IF gerr # Nil
        THEN [mach |-> [MAC |-> << >>, Arch |-> t.Arch], fwtype |-> 0, err |-> gerr]
        ELSE [mach |-> [MAC |-> pkt.HardwareAddr, Arch |-> t.Arch],
              fwtype |-> fw, err |-> Nil]

(***************************************************************************)
(* Server.offerDHCP                                                        *)
(***************************************************************************)
StrPXEClient == <<"P", "X", "E", "C", "l", "i", "e", "n", "t">>
StrTftpScheme == <<"t", "f", "t", "p", ":", "/", "/">>
StrHttpScheme == <<"h", "t", "t", "p", ":", "/", "/">>
StrIpxePath ==
    <<"/", "_", "/", "i", "p", "x", "e", "?", "a", "r", "c", "h", "=">>
StrMacParam == <<"&", "m", "a", "c", "=">>

\* the fields set before the switch, without the broadcast flag
OfferCommon_NoBroadcast(pkt, mach, serverIP) ==
    [ZeroPacket EXCEPT
        !.Type = MsgOffer,
        !.TransactionID = pkt.TransactionID,
        !.Broadcast = FALSE,
        !.HardwareAddr = mach.MAC,
        !.RelayAddr = pkt.RelayAddr,
        !.ServerAddr = serverIP,
        !.Options =
            (OptServerIdentifier :> serverIP)
            @@ (OptVendorIdentifier :> StrPXEClient)
            @@ (IF HasOption(pkt.Options, OptUidGuidClientIdentifier)
                THEN OptUidGuidClientIdentifier
                        :> pkt.Options[OptUidGuidClientIdentifier]
                ELSE NoOptions)]

\* the fields set before the switch on the firmware type
OfferCommon(pkt, mach, serverIP) ==
    [ZeroPacket EXCEPT
        !.Type = MsgOffer,
        !.TransactionID = pkt.TransactionID,
        !.Broadcast = TRUE,
        !.HardwareAddr = mach.MAC,
        !.RelayAddr = pkt.RelayAddr,
        !.ServerAddr = serverIP,
        !.Options =
            (OptServerIdentifier :> serverIP)
            @@ (OptVendorIdentifier :> StrPXEClient)
            @@ (IF HasOption(pkt.Options, OptUidGuidClientIdentifier)
                THEN OptUidGuidClientIdentifier
                        :> pkt.Options[OptUidGuidClientIdentifier]
                ELSE NoOptions)]

\* "%s/%d" of the hardware address and the firmware type
TftpFilename(mac, fwtype) == MacString(mac) \o <<"/">> \o Itoa(fwtype)

\* the switch on the firmware type, with the iPXE case naming the boot server
OfferFirmware_IpxeNamed(resp, mach, serverIP, fwtype) ==
    LET pxe == MarshalOption(6, <<8>>)
    IN  CASE fwtype \in {FirmwareX86PC, FirmwareX86Ipxe} ->
                [pkt |-> [resp EXCEPT
                            !.Options = (OptVendorSpecific :> pxe.bs) @@ @,
                            !.BootServerName = IPString(serverIP),
                            !.BootFilename = TftpFilename(mach.MAC, fwtype)],
                 err |-> Nil]
          [] fwtype \in {FirmwareEFI32, FirmwareEFI64, FirmwareEFIBC, FirmwareEfiArm64} ->
                [pkt |-> [resp EXCEPT
                            !.BootServerName = IPString(serverIP),
                            !.BootFilename = TftpFilename(mach.MAC, fwtype)],
                 err |-> Nil]
          [] fwtype = FirmwarePixiecoreIpxe ->
                [pkt |-> [resp EXCEPT
                            !.BootFilename =
                                StrHttpScheme \o IPString(serverIP) \o <<":">>
                                \o Itoa(HTTPPort) \o StrIpxePath \o Itoa(mach.Arch)
                                \o StrMacParam \o MacString(mach.MAC)],
                 err |-> Nil]
          [] OTHER ->
                [pkt |-> ZeroPacket,
                 err |-> "unknown firmware type " \o ToString(fwtype)]

\* the switch on the firmware type, without the case of EFI on ARM64
OfferFirmware_NoArm64(resp, mach, serverIP, fwtype) ==
    LET pxe == MarshalOption(6, <<8>>)
    IN  CASE fwtype = FirmwareX86PC ->
                IF pxe.err # Nil
                THEN [pkt |-> ZeroPacket,
                      err |-> "failed to serialize PXE vendor options: " \o pxe.err]
                ELSE [pkt |-> [resp EXCEPT
                                !.Options = (OptVendorSpecific :> pxe.bs) @@ @,
                                !.BootServerName = IPString(serverIP),
                                !.BootFilename = TftpFilename(mach.MAC, fwtype)],
                      err |-> Nil]
          [] fwtype = FirmwareX86Ipxe ->
                IF pxe.err # Nil
                THEN [pkt |-> ZeroPacket,
                      err |-> "failed to serialize PXE vendor options: " \o pxe.err]
                ELSE [pkt |-> [resp EXCEPT
                                !.Options = (OptVendorSpecific :> pxe.bs) @@ @,
                                !.BootFilename =
                                    StrTftpScheme \o IPString(serverIP) \o <<"/">>
                                    \o TftpFilename(mach.MAC, fwtype)],
                      err |-> Nil]
          [] fwtype \in {FirmwareEFI32, FirmwareEFI64, FirmwareEFIBC} ->
                [pkt |-> [resp EXCEPT
                            !.BootServerName = IPString(serverIP),
                            !.BootFilename = TftpFilename(mach.MAC, fwtype)],
                 err |-> Nil]
          [] fwtype = FirmwarePixiecoreIpxe ->
                [pkt |-> [resp EXCEPT
                            !.BootFilename =
                                StrHttpScheme \o IPString(serverIP) \o <<":">>
                                \o Itoa(HTTPPort) \o StrIpxePath \o Itoa(mach.Arch)
                                \o StrMacParam \o MacString(mach.MAC)],
                 err |-> Nil]
          [] OTHER ->
                [pkt |-> ZeroPacket,
                 err |-> "unknown firmware type " \o ToString(fwtype)]

\* the switch on the firmware type
OfferFirmware(resp, mach, serverIP, fwtype) ==
    LET pxe == MarshalOption(6, <<8>>)
    IN  CASE fwtype = FirmwareX86PC ->
                IF pxe.err # Nil
                THEN [pkt |-> ZeroPacket,
                      err |-> "failed to serialize PXE vendor options: " \o pxe.err]
                ELSE [pkt |-> [resp EXCEPT
                                !.Options = (OptVendorSpecific :> pxe.bs) @@ @,
                                !.BootServerName = IPString(serverIP),
                                !.BootFilename = TftpFilename(mach.MAC, fwtype)],
                      err |-> Nil]
          [] fwtype = FirmwareX86Ipxe ->
                IF pxe.err # Nil
                THEN [pkt |-> ZeroPacket,
                      err |-> "failed to serialize PXE vendor options: " \o pxe.err]
                ELSE [pkt |-> [resp EXCEPT
                                !.Options = (OptVendorSpecific :> pxe.bs) @@ @,
                                !.BootFilename =
                                    StrTftpScheme \o IPString(serverIP) \o <<"/">>
                                    \o TftpFilename(mach.MAC, fwtype)],
                      err |-> Nil]
          [] fwtype \in {FirmwareEFI32, FirmwareEFI64, FirmwareEFIBC, FirmwareEfiArm64} ->
                [pkt |-> [resp EXCEPT
                            !.BootServerName = IPString(serverIP),
                            !.BootFilename = TftpFilename(mach.MAC, fwtype)],
                 err |-> Nil]
          [] fwtype = FirmwarePixiecoreIpxe ->
                [pkt |-> [resp EXCEPT
                            !.BootFilename =
                                StrHttpScheme \o IPString(serverIP) \o <<":">>
                                \o Itoa(HTTPPort) \o StrIpxePath \o Itoa(mach.Arch)
                                \o StrMacParam \o MacString(mach.MAC)],
                 err |-> Nil]
          [] OTHER ->
                [pkt |-> ZeroPacket,
                 err |-> "unknown firmware type " \o ToString(fwtype)]

offerDHCP(pkt, mach, serverIP, fwtype) ==
    OfferFirmware(OfferCommon(pkt, mach, serverIP), mach, serverIP, fwtype)

(***************************************************************************)
(* interfaceIP. An interface address is [net, ip]: net is "IPNet" or       *)
(* "IPAddr" (the dynamic type of the net.Addr), ip has 4 or 16 bytes.      *)
(***************************************************************************)
\* net.IP.To4: the 4-byte form, or nil for an address that is not IPv4
To4(ip) ==
    IF Len(ip) = 4 THEN ip
    ELSE IF /\ Len(ip) = 16
            /\ \A i \in 1..10 : ip[i] = 0
            /\ ip[11] = 255
            /\ ip[12] = 255
         THEN SubSeq(ip, 13, 16)
    ELSE << >>

\* net.IP.IsLoopback, of a 4-byte address
IsLoopback(ip) == ip[1] = 127

\* net.IP.IsLinkLocalUnicast, of a 4-byte address
IsLinkLocalUnicast(ip) == ip[1] = 169 /\ ip[2] = 254

\* net.IP.IsGlobalUnicast, of a 4-byte address
IsGlobalUnicast(ip) ==
    /\ ip # <<255, 255, 255, 255>>
    /\ ip # <<0, 0, 0, 0>>
    /\ ~IsLoopback(ip)
    /\ ~(ip[1] \div 16 = 14)
    /\ ~IsLinkLocalUnicast(ip)

\* fs[k], the k-th test interfaceIP tries
AddrTier(k, ip) ==
    CASE k = 1 -> IsGlobalUnicast(ip)
      [] k = 2 -> IsLinkLocalUnicast(ip)
      [] k = 3 -> IsLoopback(ip)

\* the positions of addrs the k-th pass returns at
TierHits(addrs, k) ==
    {i \in 1..Len(addrs) :
        /\ addrs[i].net = "IPNet"
        /\ To4(addrs[i].ip) # << >>
        /\ AddrTier(k, To4(addrs[i].ip))}

Min(S) == CHOOSE x \in S : \A y \in S : x <= y

\* interfaceIP with the two loops exchanged: the first address that passes
\* any of the tests
interfaceIP_AddressFirst(addrs) ==
    LET hits == TierHits(addrs, 1) \cup TierHits(addrs, 2) \cup TierHits(addrs, 3)
    IN  IF hits = {}
        THEN [ip |-> << >>,
              err |-> "no usable unicast address configured on interface"]
        ELSE [ip |-> To4(addrs[Min(hits)].ip), err |-> Nil]

\* interfaceIP, after intf.Addrs() returned addrs
interfaceIP(addrs) ==
    LET tiers == {k \in 1..3 : TierHits(addrs, k) # {}}
    IN  IF tiers = {}
        THEN [ip |-> << >>,
              err |-> "no usable unicast address configured on interface"]
        ELSE [ip |-> To4(addrs[Min(TierHits(addrs, Min(tiers)))].ip), err |-> Nil]

(***************************************************************************)
(* portableConn.SendDHCP.                                                  *)
(***************************************************************************)
\* the UDP port DHCP clients listen on
dhcpClientPort == 68

\* the transmission strategies
txBroadcast == 0
txRelayAddr == 1
txClientAddr == 2
txHardwareAddr == 3

IPv4bcast == <<255, 255, 255, 255>>

\* Packet.txType: to the relay when the packet has a relay address, else to
\* the client address when it has one, else broadcast when the broadcast flag
\* is set or no address is offered, else to the hardware address
txType(p) ==
    IF p.RelayAddr # << >> THEN txRelayAddr
    ELSE IF p.ClientAddr # << >> THEN txClientAddr
    ELSE IF p.Broadcast \/ p.YourAddr = << >> THEN txBroadcast
    ELSE txHardwareAddr

\* Packet.Marshal: the bytes, or the error for a field or an option value
\* longer than the wire format holds. The bytes are kept as the packet they
\* encode.
Marshal(p) ==
    IF Len(p.HardwareAddr) > 16
    THEN [b |-> << >>, err |-> "hardware address too long"]
    ELSE IF Len(p.BootServerName) > 64
    THEN [b |-> << >>, err |-> "boot server name too long"]
    ELSE IF Len(p.BootFilename) > 128
    THEN [b |-> << >>, err |-> "boot filename too long"]
    ELSE IF \E n \in DOMAIN p.Options : Len(p.Options[n]) > 255
    THEN [b |-> << >>, err |-> "option value too long"]
    ELSE [b |-> <<p>>, err |-> Nil]

\* one c.conn.WriteTo(b, cm, addr) call; IfIndex 0 stands for a nil cm
WriteTo(b, ifIndex, ip, port) ==
    [b |-> b, IfIndex |-> ifIndex, IP |-> ip, Port |-> port]

\* SendDHCP where the relay case writes to the client port
SendDHCP_RelayToClientPort(p, i, tx, werr) ==
    LET m == Marshal(p)
    IN  IF m.err # Nil THEN [err |-> m.err, writes |-> << >>]
        ELSE CASE tx \in {txBroadcast, txHardwareAddr} ->
                    [err |-> werr,
                     writes |-> <<WriteTo(m.b, i.Index, IPv4bcast, dhcpClientPort)>>]
               [] tx = txRelayAddr ->
                    [err |-> werr,
                     writes |-> <<WriteTo(m.b, 0, p.RelayAddr, dhcpClientPort)>>]
               [] tx = txClientAddr ->
                    [err |-> werr,
                     writes |-> <<WriteTo(m.b, 0, p.ClientAddr, dhcpClientPort)>>]
               [] OTHER ->
                    [err |-> "unknown TX type for packet", writes |-> << >>]

\* SendDHCP(p, i), with tx what p.txType() returns and werr what WriteTo
\* returns: the error returned and the WriteTo calls made
SendDHCP(p, i, tx, werr) ==
    LET m == Marshal(p)
    IN  IF m.err # Nil THEN [err |-> m.err, writes |-> << >>]
        ELSE CASE tx \in {txBroadcast, txHardwareAddr} ->
                    [err |-> werr,
                     writes |-> <<WriteTo(m.b, i.Index, IPv4bcast, dhcpClientPort)>>]
               [] tx = txRelayAddr ->
                    [err |-> werr,
                     writes |-> <<WriteTo(m.b, 0, p.RelayAddr, 67)>>]
               [] tx = txClientAddr ->
                    [err |-> werr,
                     writes |-> <<WriteTo(m.b, 0, p.ClientAddr, dhcpClientPort)>>]
               [] OTHER ->
                    [err |-> "unknown TX type for packet", writes |-> << >>]

(***************************************************************************)
(* The datagrams, interfaces and collaborators' answers the loop is run    *)
(* against.                                                                *)
(***************************************************************************)
\* hardware addresses: two ordinary ones, one per vendor prefix, and one
\* that differs from a vendor prefix in its third byte
MACs ==
    { <<222, 173, 190, 239, 0, 1>>, <<0, 17, 34, 51, 68, 85>>,
      <<40, 205, 193, 0, 0, 1>>, <<184, 39, 235, 0, 0, 1>>,
      <<216, 58, 221, 0, 0, 1>>, <<220, 166, 50, 0, 0, 1>>,
      <<228, 95, 1, 0, 0, 1>>, <<184, 39, 236, 0, 0, 1>> }

\* lists of interface addresses of at most this length
MaxAddrs == 3

\* offers sent to one booting client
MaxOffers == 3

\* values of option 93: the codes 0, 6, 7, 9, 11, 16, 19, 999, 256, and
\* two values that are not two bytes long
ClientSystemValues ==
    { <<0, 0>>, <<0, 6>>, <<0, 7>>, <<0, 9>>, <<0, 11>>, <<0, 16>>, <<0, 19>>,
      <<3, 231>>, <<1, 0>>, <<7>>, << >> }

\* values of option 77
UserClassValues ==
    { StrIPXE, StrPixiecore, <<"i", "p", "x", "e">>, << >> }

Guid17(lead) == <<lead>> \o [i \in 1..16 |-> i]

\* values of option 97: empty, 17 bytes with a zero and a non-zero leading
\* byte, 16 and 18 bytes
GuidValues ==
    { << >>, Guid17(0), Guid17(1), [i \in 1..16 |-> 0], [i \in 1..18 |-> 0] }

RelayAddrs == { << >>, <<10, 0, 0, 254>> }

\* the ways a request carries option n: not at all, or with a value of vals
OptionChoices(n, vals) == {NoOptions} \cup {n :> v : v \in vals}

Packets ==
    { [ZeroPacket EXCEPT
            !.Type = t,
            !.TransactionID = x,
            !.HardwareAddr = m,
            !.RelayAddr = r,
            !.Options = a @@ u @@ g] :
        t \in {MsgDiscover, MsgRequest},
        x \in 0..MaxXid,
        m \in MACs,
        r \in RelayAddrs,
        a \in OptionChoices(OptClientSystem, ClientSystemValues),
        u \in OptionChoices(OptUserClass, UserClassValues),
        g \in OptionChoices(OptUidGuidClientIdentifier, GuidValues) }

\* *net.Interface; NilInterface is the nil pointer
NilInterface == [Index |-> 0, Name |-> ""]
Interfaces == { [Index |-> 2, Name |-> "eth0"] }

AddrLoopback == [net |-> "IPNet", ip |-> <<127, 0, 0, 1>>]
AddrLinkLocal == [net |-> "IPNet", ip |-> <<169, 254, 1, 1>>]
AddrGlobal == [net |-> "IPNet", ip |-> <<10, 0, 0, 1>>]
AddrV6 ==
    [net |-> "IPNet", ip |-> <<254, 128, 0, 0, 0, 0, 0, 0, 0, 0, 0, 0, 0, 0, 0, 1>>]
AddrMapped ==
    [net |-> "IPNet", ip |-> <<0, 0, 0, 0, 0, 0, 0, 0, 0, 0, 255, 255, 192, 168, 1, 5>>]
AddrNotIPNet == [net |-> "IPAddr", ip |-> <<10, 0, 0, 9>>]

\* what intf.Addrs() may return
AddrLists ==
    { << >>,
      <<AddrLoopback, AddrLinkLocal, AddrGlobal>>,
      <<AddrV6, AddrLinkLocal>>,
      <<AddrLoopback>>,
      <<AddrV6, AddrNotIPNet>>,
      <<AddrNotIPNet, AddrMapped, AddrGlobal>> }

\* errors of the collaborators
ErrRead == "read udp4: i/o timeout"
ErrNoInterface == "route ip+net: no such network interface"
ErrAddrs == "route ip+net: invalid network interface"
ErrBooter == "booter failed"
ErrWrite == "write udp4: network is unreachable"

\* machineEvent states
machineStateProxyDHCP == "ProxyDHCP"
machineStateProxyDHCPIpxe == "ProxyDHCPIpxe"
machineStateIgnored == "Ignored"

(***************************************************************************)
(* The state of one run of serveDHCP.                                      *)
(*   pc        where the loop is                                           *)
(*   nskip     undecodable datagrams skipped by the RecvDHCP call going on *)
(*   reads     what c.conn.ReadFrom returned in each pass of that call     *)
(*   pkt, intf, err, mach, fwtype, spec, serverIP, resp                    *)
(*             the local variables of the loop body                        *)
(*   ret       the error serveDHCP returned                                *)
(*   trace     the calls made for the packet being processed, with how     *)
(*             each ended                                                  *)
(*   events    the machine events emitted for that packet                  *)
(*   sent      the SendDHCP calls made for that packet                     *)
(***************************************************************************)
VARIABLES pc, nskip, reads, pkt, intf, err, mach, fwtype, spec, serverIP, resp,
          ret, trace, events, sent

loopVars ==
    <<pc, nskip, reads, pkt, intf, err, mach, fwtype, spec, serverIP, resp, ret,
      trace, events, sent>>

(***************************************************************************)
(* The state of the operations that are run on their own.                  *)
(*   ifAddrs, resolved   interfaceIP: what intf.Addrs() returned, and the  *)
(*                       result once it has returned                       *)
(*   out, wire, sendRet  SendDHCP: the packet and interface it is called   *)
(*                       with, the WriteTo calls made on the socket, and   *)
(*                       the error once it has returned                    *)
(*   Ipxe                Server.Ipxe, the images by firmware type          *)
(*   tftpPc, request     the TFTP engine: where a transfer is, and the     *)
(*                       path and peer of its read request                 *)
(*   reply               what handleTFTP returned for it                   *)
(*   transferLog         the calls the engine made of logTFTPTransfer      *)
(*   tftpLog, tftpEvents the log lines and machine events these emitted    *)
(*   client, offers      a booting client: its hardware address, its       *)
(*                       architecture and what it runs; the offers sent to *)
(*                       it                                                *)
(***************************************************************************)
VARIABLES ifAddrs, resolved, out, wire, sendRet, Ipxe, tftpPc, request, reply,
          transferLog, tftpLog, tftpEvents, client, offers

resolverVars == <<ifAddrs, resolved>>
sendVars == <<out, wire, sendRet>>
tftpVars == <<Ipxe, tftpPc, request, reply, transferLog, tftpLog, tftpEvents>>
clientVars == <<client, offers>>

vars == <<loopVars, resolverVars, sendVars, tftpVars, clientVars>>

locals == <<pkt, intf, err, mach, fwtype, spec, serverIP, resp>>
history == <<trace, events, sent>>

Call(fn, res) == [fn |-> fn, res |-> res]

\* one return of c.conn.ReadFrom: a read error, a datagram Unmarshal refuses,
\* or a datagram that decodes to p and arrived on interface i (NilInterface
\* when its index names no interface)
ReadFrom(kind, p, i) == [kind |-> kind, pkt |-> p, intf |-> i]

LoopInit ==
    /\ pc = "recv"
    /\ nskip = 0
    /\ reads = << >>
    /\ pkt = ZeroPacket
    /\ intf = NilInterface
    /\ err = Nil
    /\ mach = ZeroMachine
    /\ fwtype = 0
    /\ spec = "nil"
    /\ serverIP = << >>
    /\ resp = ZeroPacket
    /\ ret = Nil
    /\ trace = << >>
    /\ events = << >>
    /\ sent = << >>

\* interfaceIP, SendDHCP, the TFTP handlers and the client at rest
ResolverIdle == ifAddrs = << >> /\ resolved = << >>
SendIdle == out = << >> /\ wire = << >> /\ sendRet = << >>
TftpIdle ==
    /\ Ipxe = << >>
    /\ tftpPc = "idle"
    /\ request = << >>
    /\ reply = << >>
    /\ transferLog = << >>
    /\ tftpLog = << >>
    /\ tftpEvents = << >>
ClientIdle == client = << >> /\ offers = << >>

Init == LoopInit /\ ResolverIdle /\ SendIdle /\ TftpIdle /\ ClientIdle

(***************************************************************************)
(* portableConn.RecvDHCP, one action per way a pass of its loop ends.      *)
(***************************************************************************)
\* ReadFrom fails
RecvReadError ==
    /\ pc = "recv"
    /\ err' = ErrRead
    /\ pc' = "recvd"
    /\ nskip' = 0
    /\ reads' = Append(reads, ReadFrom("error", ZeroPacket, NilInterface))
    /\ UNCHANGED <<pkt, intf, mach, fwtype, spec, serverIP, resp, ret, history>>

\* RecvUndecodable returning the decoding error
RecvUndecodable_ReturnsError ==
    /\ pc = "recv"
    /\ nskip < MaxSkip
    /\ nskip' = 0
    /\ reads' = Append(reads, ReadFrom("undecodable", ZeroPacket, NilInterface))
    /\ err' = "packet too short"
    /\ pc' = "recvd"
    /\ UNCHANGED <<pkt, intf, mach, fwtype, spec, serverIP, resp, ret, history>>

\* Unmarshal fails: the datagram is skipped and the read repeated
RecvUndecodable ==
    /\ pc = "recv"
    /\ nskip < MaxSkip
    /\ nskip' = nskip + 1
    /\ reads' = Append(reads, ReadFrom("undecodable", ZeroPacket, NilInterface))
    /\ UNCHANGED <<pc, locals, ret, history>>

\* a datagram of the set P decodes and net.InterfaceByIndex fails
RecvNoInterfaceOf(P) ==
    /\ pc = "recv"
    /\ err' = ErrNoInterface
    /\ pc' = "recvd"
    /\ nskip' = 0
    /\ \E p \in P : reads' = Append(reads, ReadFrom("packet", p, NilInterface))
    /\ UNCHANGED <<pkt, intf, mach, fwtype, spec, serverIP, resp, ret, history>>

\* the datagram decodes and net.InterfaceByIndex fails
RecvNoInterface == RecvNoInterfaceOf(Packets)

\* a datagram of the set P decodes to p and arrived on interface i
RecvPacketOf(P) ==
    /\ pc = "recv"
    /\ \E p \in P, i \in Interfaces :
        /\ pkt' = p
        /\ intf' = i
        /\ reads' = Append(reads, ReadFrom("packet", p, i))
    /\ err' = Nil
    /\ pc' = "recvd"
    /\ nskip' = 0
    /\ UNCHANGED <<mach, fwtype, spec, serverIP, resp, ret, history>>

\* the datagram decodes to p and arrived on interface i
RecvPacket == RecvPacketOf(Packets)

(***************************************************************************)
(* Server.serveDHCP, one action per statement of the loop body.            *)
(***************************************************************************)
\* the two checks of what RecvDHCP returned
ServeRecv ==
    /\ pc = "recvd"
    /\ IF err # Nil
       THEN /\ ret' = "receiving DHCP packet: " \o err
            /\ pc' = "returned"
       ELSE IF intf = NilInterface
       THEN /\ ret' = "received DHCP packet with no interface information"
            /\ pc' = "returned"
       ELSE /\ ret' = ret
            /\ pc' = "isBoot"
    /\ reads' = << >>
    /\ UNCHANGED <<nskip, locals, history>>

ServeIsBoot ==
    /\ pc = "isBoot"
    /\ err' = isBootDHCP(pkt)
    /\ trace' = Append(trace, Call("isBootDHCP", IF err' = Nil THEN "ok" ELSE "err"))
    /\ pc' = IF err' # Nil THEN "continue" ELSE "validate"
    /\ UNCHANGED <<nskip, reads, pkt, intf, mach, fwtype, spec, serverIP, resp, ret,
                   events, sent>>

ServeValidate ==
    /\ pc = "validate"
    /\ LET r == validateDHCP(pkt)
       IN  /\ mach' = r.mach
           /\ fwtype' = r.fwtype
           /\ err' = r.err
    /\ trace' = Append(trace, Call("validateDHCP", IF err' = Nil THEN "ok" ELSE "err"))
    /\ pc' = IF err' # Nil THEN "continue" ELSE "bootspec"
    /\ UNCHANGED <<nskip, reads, pkt, intf, spec, serverIP, resp, ret, events, sent>>

\* ServeBootSpec without the "continue" of the nil answer
ServeBootSpec_NilOffered ==
    /\ pc = "bootspec"
    /\ \E answer \in {"err", "nil", "spec"} :
        /\ spec' = IF answer = "spec" THEN "spec" ELSE "nil"
        /\ err' = IF answer = "err" THEN ErrBooter ELSE Nil
        /\ trace' = Append(trace, Call("BootSpec", answer))
        /\ events' =
            IF answer = "err" THEN events
            ELSE Append(events, [mac |-> pkt.HardwareAddr,
                                 state |-> machineStateProxyDHCP])
        /\ pc' = IF answer = "err" THEN "continue" ELSE "interfaceIP"
    /\ UNCHANGED <<nskip, reads, pkt, intf, mach, fwtype, serverIP, resp, ret, sent>>

\* s.Booter.BootSpec(mach), the checks of its answer and the machine event
ServeBootSpec ==
    /\ pc = "bootspec"
    /\ \E answer \in {"err", "nil", "spec"} :
        /\ spec' = IF answer = "spec" THEN "spec" ELSE "nil"
        /\ err' = IF answer = "err" THEN ErrBooter ELSE Nil
        /\ trace' = Append(trace, Call("BootSpec", answer))
        /\ events' =
            CASE answer = "err" -> events
              [] answer = "nil" ->
                    Append(events, [mac |-> pkt.HardwareAddr,
                                    state |-> machineStateIgnored])
              [] OTHER ->
                    Append(events,
                           [mac |-> pkt.HardwareAddr,
                            state |-> IF fwtype = FirmwarePixiecoreIpxe
                                      THEN machineStateProxyDHCPIpxe
                                      ELSE machineStateProxyDHCP])
        /\ pc' = IF answer = "spec" THEN "interfaceIP" ELSE "continue"
    /\ UNCHANGED <<nskip, reads, pkt, intf, mach, fwtype, serverIP, resp, ret, sent>>

\* interfaceIP(intf): intf.Addrs() fails
ServeAddrsError ==
    /\ pc = "interfaceIP"
    /\ serverIP' = << >>
    /\ err' = ErrAddrs
    /\ trace' = Append(trace, Call("interfaceIP", "err"))
    /\ pc' = "continue"
    /\ UNCHANGED <<nskip, reads, pkt, intf, mach, fwtype, spec, resp, ret, events, sent>>

\* interfaceIP(intf): intf.Addrs() returns addrs
ServeInterfaceIP ==
    /\ pc = "interfaceIP"
    /\ \E addrs \in AddrLists :
        LET r == interfaceIP(addrs)
        IN  /\ serverIP' = r.ip
            /\ err' = r.err
    /\ trace' = Append(trace, Call("interfaceIP", IF err' = Nil THEN "ok" ELSE "err"))
    /\ pc' = IF err' # Nil THEN "continue" ELSE "offer"
    /\ UNCHANGED <<nskip, reads, pkt, intf, mach, fwtype, spec, resp, ret, events, sent>>

ServeOffer ==
    /\ pc = "offer"
    /\ LET r == offerDHCP(pkt, mach, serverIP, fwtype)
       IN  /\ resp' = r.pkt
           /\ err' = r.err
    /\ trace' = Append(trace, Call("offerDHCP", IF err' = Nil THEN "ok" ELSE "err"))
    /\ pc' = IF err' # Nil THEN "continue" ELSE "send"
    /\ UNCHANGED <<nskip, reads, pkt, intf, mach, fwtype, spec, serverIP, ret, events, sent>>

\* ServeSend returning the send error instead of continuing
ServeSend_ReturnOnError ==
    /\ pc = "send"
    /\ \E werr \in {Nil, ErrWrite} :
        LET r == SendDHCP(resp, intf, txType(resp), werr)
            e == r.err
        IN  /\ err' = e
            /\ sent' = Append(sent, [pkt |-> resp, intf |-> intf, err |-> e,
                                     writes |-> r.writes])
            /\ trace' = Append(trace, Call("SendDHCP", IF e = Nil THEN "ok" ELSE "err"))
            /\ pc' = IF e = Nil THEN "continue" ELSE "returned"
            /\ ret' = IF e = Nil THEN ret ELSE "sending DHCP packet: " \o e
    /\ UNCHANGED <<nskip, reads, pkt, intf, mach, fwtype, spec, serverIP, resp, events>>

\* conn.SendDHCP(resp, intf), which the socket may fail
ServeSend ==
    /\ pc = "send"
    /\ \E werr \in {Nil, ErrWrite} :
        LET r == SendDHCP(resp, intf, txType(resp), werr)
            e == r.err
        IN  /\ err' = e
            /\ sent' = Append(sent, [pkt |-> resp, intf |-> intf, err |-> e,
                                     writes |-> r.writes])
            /\ trace' = Append(trace, Call("SendDHCP", IF e = Nil THEN "ok" ELSE "err"))
    /\ pc' = "continue"
    /\ UNCHANGED <<nskip, reads, pkt, intf, mach, fwtype, spec, serverIP, resp, ret, events>>

\* back to the top of the loop: the locals of the body go out of scope
ServeContinue ==
    /\ pc = "continue"
    /\ pc' = "recv"
    /\ pkt' = ZeroPacket
    /\ intf' = NilInterface
    /\ err' = Nil
    /\ mach' = ZeroMachine
    /\ fwtype' = 0
    /\ spec' = "nil"
    /\ serverIP' = << >>
    /\ resp' = ZeroPacket
    /\ trace' = << >>
    /\ events' = << >>
    /\ sent' = << >>
    /\ UNCHANGED <<nskip, reads, ret>>

\* serveDHCP, with the other operations at rest
notLoop == <<resolverVars, sendVars, tftpVars, clientVars>>

Next ==
    \/ RecvReadError /\ UNCHANGED notLoop
    \/ RecvUndecodable /\ UNCHANGED notLoop
    \/ RecvNoInterface /\ UNCHANGED notLoop
    \/ RecvPacket /\ UNCHANGED notLoop
    \/ ServeRecv /\ UNCHANGED notLoop
    \/ ServeIsBoot /\ UNCHANGED notLoop
    \/ ServeValidate /\ UNCHANGED notLoop
    \/ ServeBootSpec /\ UNCHANGED notLoop
    \/ ServeAddrsError /\ UNCHANGED notLoop
    \/ ServeInterfaceIP /\ UNCHANGED notLoop
    \/ ServeOffer /\ UNCHANGED notLoop
    \/ ServeSend /\ UNCHANGED notLoop
    \/ ServeContinue /\ UNCHANGED notLoop

Spec == Init /\ [][Next]_vars

(***************************************************************************)
(* What the claims are stated with.                                        *)
(***************************************************************************)
\* the statements of the loop body that work on the received packet
PacketSteps == {"isBoot", "validate", "bootspec", "interfaceIP", "offer", "send"}

LastCall == trace[Len(trace)]

\* the request carries a two-byte option 93, whose number is Code93
WellFormed93 ==
    /\ OptClientSystem \in DOMAIN pkt.Options
    /\ Len(pkt.Options[OptClientSystem]) = 2
Code93 == pkt.Options[OptClientSystem][1] * 256 + pkt.Options[OptClientSystem][2]

\* the first three bytes of the request's hardware address are a vendor's
VendorPrefixes ==
    { <<40, 205, 193>>, <<184, 39, 235>>, <<216, 58, 221>>, <<220, 166, 50>>,
      <<228, 95, 1>> }
VendorMAC ==
    /\ Len(pkt.HardwareAddr) >= 3
    /\ SubSeq(pkt.HardwareAddr, 1, 3) \in VendorPrefixes

\* the table of the specification: architecture code -> architecture, firmware
TableCodes == {0, 6, 7, 9, 11}
TableArchitecture(c) ==
    CASE c = 0 -> ArchIA32 [] c = 6 -> ArchIA32 [] c = 7 -> ArchX64
      [] c = 9 -> ArchX64 [] c = 11 -> ArchArm64
TableFirmware(c) ==
    CASE c = 0 -> FirmwareX86PC [] c = 6 -> FirmwareEFI32 [] c = 7 -> FirmwareEFI64
      [] c = 9 -> FirmwareEFIBC [] c = 11 -> FirmwareEfiArm64

\* validateDHCP was called for the packet; it was the last call made
Validated == Len(trace) >= 2
JustValidated == Len(trace) = 2

UserClassIs(str) ==
    /\ OptUserClass \in DOMAIN pkt.Options
    /\ pkt.Options[OptUserClass] = str

RequestGuid == OptionValue(pkt.Options, OptUidGuidClientIdentifier)
GuidAccepted ==
    \/ Len(RequestGuid) = 0
    \/ Len(RequestGuid) = 17 /\ RequestGuid[1] = 0

\* offerDHCP was called for the packet and returned an offer
OfferBuilt == Len(trace) >= 5 /\ trace[5] = Call("offerDHCP", "ok")

(***************************************************************************)
(* C1. Per-packet faults are contained: no statement of the loop body that *)
(* works on the received packet returns from serveDHCP; whenever a call    *)
(* made for the packet ends in an error or a nil boot spec (not a boot     *)
(* request, classification error, provider error, provider nil, no source  *)
(* address, offer construction error, send error) the loop goes to its     *)
(* "continue", with nothing returned, and from there to the next read.     *)
(***************************************************************************)
C1_PerPacketFaultsContained ==
    [][ /\ pc \in PacketSteps =>
            /\ pc' \in PacketSteps \cup {"continue"}
            /\ ret' = Nil
            /\ trace'[Len(trace')].res \in {"err", "nil"} => pc' = "continue"
        /\ pc = "continue" => (pc' = "recv" /\ ret' = Nil) ]_vars

\* a send failure was contained: the loop is about to read the next datagram
C1_Witness ==
    /\ pc = "continue"
    /\ trace # << >>
    /\ LastCall = Call("SendDHCP", "err")
    /\ ret = Nil

(***************************************************************************)
(* C2. Only a failure of the read on the socket ends the loop: whenever    *)
(* serveDHCP has returned, the error is the one of the socket read, and    *)
(* not the one of resolving the arrival interface of a datagram.           *)
(***************************************************************************)
C2_OnlyReadFailureTerminates ==
    pc = "returned" => ret = "receiving DHCP packet: " \o ErrRead

(***************************************************************************)
(* C3. SendDHCP is called at most once for a packet, and only after, in    *)
(* this order, isBootDHCP passed, validateDHCP succeeded, the provider     *)
(* returned a non-nil spec without error, interfaceIP returned an address  *)
(* and offerDHCP succeeded; what is sent is the offer built from that      *)
(* packet, on its arrival interface; nothing is sent while a read is going *)
(* on (the send of a packet precedes the next read).                       *)
(***************************************************************************)
C3_SendOnlyAfterAllChecks ==
    /\ Len(sent) <= 1
    /\ Cardinality({i \in 1..Len(trace) : trace[i].fn = "SendDHCP"}) = Len(sent)
    /\ sent # << >> =>
        /\ Len(trace) = 6
        /\ SubSeq(trace, 1, 5) =
             << Call("isBootDHCP", "ok"), Call("validateDHCP", "ok"),
                Call("BootSpec", "spec"), Call("interfaceIP", "ok"),
                Call("offerDHCP", "ok") >>
        /\ pkt.Type = MsgDiscover
        /\ OptClientSystem \in DOMAIN pkt.Options
        /\ spec = "spec"
        /\ Len(serverIP) = 4
        /\ sent[1].pkt = resp
        /\ sent[1].intf = intf
        /\ resp.Type = MsgOffer
        /\ resp.TransactionID = pkt.TransactionID
        /\ resp.HardwareAddr = pkt.HardwareAddr
        /\ pc = "continue"
    /\ pc \in {"recv", "recvd"} => (sent = << >> /\ trace = << >>)

\* an offer was sent for the packet
C3_Witness ==
    /\ Len(sent) = 1
    /\ sent[1].err = Nil
    /\ pc = "continue"

(***************************************************************************)
(* C4. isBootDHCP accepts a packet exactly when it is a Discover carrying  *)
(* option 93; a packet it rejects is skipped: nothing else is called for   *)
(* it (the provider is not queried), no machine event is emitted, nothing  *)
(* is sent, and the loop continues.                                        *)
(***************************************************************************)
C4_BootRequestFilter ==
    trace # << >> =>
        /\ trace[1].fn = "isBootDHCP"
        /\ trace[1].res = "ok" <=>
                (pkt.Type = MsgDiscover /\ OptClientSystem \in DOMAIN pkt.Options)
        /\ trace[1].res # "ok" =>
                /\ Len(trace) = 1
                /\ events = << >>
                /\ sent = << >>
                /\ pc = "continue"
                /\ ret = Nil

\* a Discover without option 93 was skipped
C4_Witness ==
    /\ pc = "continue"
    /\ trace = << Call("isBootDHCP", "err") >>
    /\ pkt.Type = MsgDiscover
    /\ OptUserClass \in DOMAIN pkt.Options

(***************************************************************************)
(* C5. validateDHCP maps the architecture code through the fixed table:    *)
(* codes 16 and 19 give their own error and every code outside the table   *)
(* (256, 999) gives the error "unsupported client firmware type '<code>'", *)
(* whatever the other inputs; for a code of the table (0, 6, 7, 9, 11) a   *)
(* successful result has the table's architecture and, when there is no    *)
(* user-class option, the table's firmware type, and the result is         *)
(* successful when the hardware address is not a vendor's with code 0 and  *)
(* the GUID is acceptable. The result is the same as for a packet that has *)
(* only the same hardware address and options 93, 77 and 97.               *)
(***************************************************************************)
C5_ArchitectureTable ==
    (JustValidated /\ WellFormed93) =>
        /\ Code93 = 16 =>
            err = "unsupported client firmware type (probably http4 x64 efi boot)"
        /\ Code93 = 19 =>
            err = "unsupported client firmware type (probably http4 arm64 efi boot)"
        /\ Code93 = 999 => err = "unsupported client firmware type '999'"
        /\ Code93 = 256 => err = "unsupported client firmware type '256'"
        /\ Code93 \notin TableCodes => (err # Nil /\ pc = "continue")
        /\ Code93 \in TableCodes =>
            /\ err = Nil <=> (~(VendorMAC /\ Code93 = 0) /\ GuidAccepted)
            /\ err = Nil =>
                /\ mach = [MAC |-> pkt.HardwareAddr, Arch |-> TableArchitecture(Code93)]
                /\ OptUserClass \notin DOMAIN pkt.Options =>
                        fwtype = TableFirmware(Code93)
        /\ <<mach, fwtype, err>> =
             LET r == validateDHCP(
                        [ZeroPacket EXCEPT
                            !.HardwareAddr = pkt.HardwareAddr,
                            !.Options =
                                [n \in DOMAIN pkt.Options
                                        \cap {OptClientSystem, OptUserClass,
                                              OptUidGuidClientIdentifier}
                                    |-> pkt.Options[n]]])
             IN  <<r.mach, r.fwtype, r.err>>

\* code 11 without a user class was classified (ARM64, EFI-ARM64)
C5_Witness ==
    /\ JustValidated
    /\ WellFormed93
    /\ Code93 = 11
    /\ OptUserClass \notin DOMAIN pkt.Options
    /\ err = Nil
    /\ mach.Arch = ArchArm64
    /\ fwtype = FirmwareEfiArm64

(***************************************************************************)
(* C6. A packet whose hardware address starts with one of the five vendor  *)
(* prefixes and whose architecture code is 0 is always refused by          *)
(* validateDHCP, whatever its user-class and GUID options: the provider is *)
(* not queried, no machine event is emitted and no offer is built or sent. *)
(***************************************************************************)
C6_VendorPrefixRefused ==
    (Validated /\ WellFormed93 /\ Code93 = 0 /\ VendorMAC) =>
        /\ trace = << Call("isBootDHCP", "ok"), Call("validateDHCP", "err") >>
        /\ err = "unsupported client firmware type '0'"
        /\ mach = ZeroMachine
        /\ events = << >>
        /\ resp = ZeroPacket
        /\ sent = << >>
        /\ pc = "continue"

\* a request from e4:5f:01:00:00:01 with code 0 and user class iPXE was refused
C6_Witness ==
    /\ pc = "continue"
    /\ Validated
    /\ WellFormed93
    /\ Code93 = 0
    /\ pkt.HardwareAddr = <<228, 95, 1, 0, 0, 1>>
    /\ UserClassIs(StrIPXE)
    /\ LastCall = Call("validateDHCP", "err")

(***************************************************************************)
(* C7. The user-class refinement: on success the firmware type is          *)
(* Pixiecore-iPXE when option 77 is "pixiecore", x86-iPXE when it is       *)
(* "iPXE" and the table's type is BIOS-PXE, and the table's type in every  *)
(* other case (another value, no option 77, "iPXE" with an EFI type); the  *)
(* architecture is always the table's.                                     *)
(***************************************************************************)
C7_UserClassRefinement ==
    (Validated /\ trace[2] = Call("validateDHCP", "ok")) =>
        /\ WellFormed93
        /\ Code93 \in TableCodes
        /\ mach.Arch = TableArchitecture(Code93)
        /\ fwtype =
            IF UserClassIs(StrPixiecore) THEN FirmwarePixiecoreIpxe
            ELSE IF UserClassIs(StrIPXE) /\ TableFirmware(Code93) = FirmwareX86PC
                 THEN FirmwareX86Ipxe
            ELSE TableFirmware(Code93)

\* user class "iPXE" with code 7 left the firmware type EFI64
C7_Witness ==
    /\ Validated
    /\ trace[2] = Call("validateDHCP", "ok")
    /\ UserClassIs(StrIPXE)
    /\ Code93 = 7
    /\ fwtype = FirmwareEFI64

(***************************************************************************)
(* C8. GUID validation, for a packet whose architecture code is accepted   *)
(* (a code of the table, not code 0 from a vendor's hardware address):     *)
(* validateDHCP succeeds exactly when option 97 has length 0 (absent or    *)
(* empty) or length 17 with leading byte 0; length 17 with another leading *)
(* byte and every other length are errors, after which the provider is not *)
(* queried, no Machine with a hardware address is returned and no offer is *)
(* built or sent.                                                          *)
(***************************************************************************)
C8_GuidValidation ==
    (Validated /\ WellFormed93 /\ Code93 \in TableCodes
       /\ ~(VendorMAC /\ Code93 = 0)) =>
        /\ trace[2].res = "ok" <=> GuidAccepted
        /\ ~GuidAccepted =>
            /\ Len(trace) = 2
            /\ err = IF Len(RequestGuid) = 17
                     THEN "malformed client GUID (option 97), leading byte must be zero"
                     ELSE "malformed client GUID (option 97), wrong size"
            /\ mach.MAC = << >>
            /\ events = << >>
            /\ resp = ZeroPacket
            /\ sent = << >>
            /\ pc = "continue"

\* a 17-byte GUID with leading byte 1 was refused
C8_Witness ==
    /\ pc = "continue"
    /\ Validated
    /\ WellFormed93
    /\ Code93 = 7
    /\ RequestGuid = Guid17(1)
    /\ LastCall = Call("validateDHCP", "err")

(***************************************************************************)
(* The per-firmware fields of a built offer, as the specification's table  *)
(* gives them, with archNumber the text after "arch=" in the HTTP URL.     *)
(***************************************************************************)
PerFirmwareFields(archNumber) ==
    LET server == IPString(serverIP)
        plain == MacString(mach.MAC) \o <<"/">> \o Itoa(fwtype)
        bypass ==
            /\ OptVendorSpecific \in DOMAIN resp.Options
            /\ resp.Options[OptVendorSpecific] = MarshalOption(6, <<8>>).bs
        noVendor == OptVendorSpecific \notin DOMAIN resp.Options
    IN  CASE fwtype = FirmwareX86PC ->
                /\ bypass
                /\ resp.BootServerName = server
                /\ resp.BootFilename = plain
          [] fwtype = FirmwareX86Ipxe ->
                /\ bypass
                /\ resp.BootServerName = << >>
                /\ resp.BootFilename =
                        <<"t", "f", "t", "p", ":", "/", "/">> \o server \o <<"/">>
                        \o plain
          [] fwtype \in {FirmwareEFI32, FirmwareEFI64, FirmwareEFIBC, FirmwareEfiArm64} ->
                /\ noVendor
                /\ resp.BootServerName = server
                /\ resp.BootFilename = plain
          [] fwtype = FirmwarePixiecoreIpxe ->
                /\ noVendor
                /\ resp.BootServerName = << >>
                /\ resp.BootFilename =
                        <<"h", "t", "t", "p", ":", "/", "/">> \o server \o <<":">>
                        \o Itoa(HTTPPort)
                        \o <<"/", "_", "/", "i", "p", "x", "e", "?">>
                        \o <<"a", "r", "c", "h", "=">> \o archNumber
                        \o <<"&", "m", "a", "c", "=">> \o MacString(mach.MAC)
          [] OTHER -> FALSE

\* the specification's example: de:ad:be:ef:00:01, type code 0, 10.0.0.1
OfferExample ==
    (mach.MAC = <<222, 173, 190, 239, 0, 1>> /\ fwtype = 0
       /\ serverIP = <<10, 0, 0, 1>>) =>
        /\ resp.BootFilename =
             <<"d", "e", ":", "a", "d", ":", "b", "e", ":", "e", "f", ":",
               "0", "0", ":", "0", "1", "/", "0">>
        /\ resp.BootServerName = <<"1", "0", ".", "0", ".", "0", ".", "1">>

(***************************************************************************)
(* C9, as amended. A built offer has the per-firmware fields of the table  *)
(* (vendor-specific option with the bypass sub-option 6 = 8 for BIOS-PXE   *)
(* and x86-iPXE only; boot server name = server address except for         *)
(* x86-iPXE and Pixiecore-iPXE, where it is unset; boot filename           *)
(* "<hw-addr>/<type-code>", with "tftp://<server-address>/" before it for  *)
(* x86-iPXE), and for Pixiecore-iPXE the boot filename                     *)
(* "http://<server-address>:<http-port>/_/ipxe?arch=<a>&mac=<hw-addr>"     *)
(* where <a> is the number of the Machine's architecture (the one the      *)
(* table gave: the same for codes 0 and 6, and for codes 7 and 9), not the *)
(* architecture code of option 93. The offer is a function of the request, *)
(* the Machine, the server address and the firmware type.                  *)
(***************************************************************************)
C9_PerFirmwareOffer ==
    OfferBuilt =>
        /\ PerFirmwareFields(Itoa(mach.Arch))
        /\ mach.Arch = TableArchitecture(Code93)
        /\ OfferExample
        /\ resp = offerDHCP(pkt, mach, serverIP, fwtype).pkt

\* a Pixiecore-iPXE offer was built for a request with architecture code 6
C9_Witness ==
    /\ OfferBuilt
    /\ pc = "send"
    /\ fwtype = FirmwarePixiecoreIpxe
    /\ Code93 = 6

(***************************************************************************)
(* C9, as stated: as above, with the architecture code of the request      *)
(* (option 93) after "arch=" in the Pixiecore-iPXE boot filename.          *)
(***************************************************************************)
C9_ArchitectureCodeInUrl ==
    OfferBuilt =>
        /\ PerFirmwareFields(Itoa(Code93))
        /\ OfferExample
        /\ resp = offerDHCP(pkt, mach, serverIP, fwtype).pkt

(***************************************************************************)
(* C10. Every built offer, whatever the firmware type, has message type    *)
(* Offer, the request's transaction id, the broadcast flag, the Machine's  *)
(* hardware address (the request's), the request's relay address, the      *)
(* resolved address as server address and as server-identifier option,     *)
(* "PXEClient" as vendor-class-identifier option, and the request's        *)
(* client-GUID option exactly when the request carried one.                *)
(***************************************************************************)
C10_CommonOfferFields ==
    OfferBuilt =>
        /\ resp.Type = MsgOffer
        /\ resp.TransactionID = pkt.TransactionID
        /\ resp.Broadcast = TRUE
        /\ resp.HardwareAddr = mach.MAC
        /\ resp.HardwareAddr = pkt.HardwareAddr
        /\ resp.RelayAddr = pkt.RelayAddr
        /\ resp.ServerAddr = serverIP
        /\ Len(serverIP) = 4
        /\ OptServerIdentifier \in DOMAIN resp.Options
        /\ resp.Options[OptServerIdentifier] = serverIP
        /\ OptVendorIdentifier \in DOMAIN resp.Options
        /\ resp.Options[OptVendorIdentifier] =
                <<"P", "X", "E", "C", "l", "i", "e", "n", "t">>
        /\ OptUidGuidClientIdentifier \in DOMAIN resp.Options
                <=> OptUidGuidClientIdentifier \in DOMAIN pkt.Options
        /\ OptUidGuidClientIdentifier \in DOMAIN pkt.Options =>
                resp.Options[OptUidGuidClientIdentifier]
                    = pkt.Options[OptUidGuidClientIdentifier]
        /\ resp.ClientAddr = << >>
        /\ resp.YourAddr = << >>

\* an offer was built for a relayed request that carried a GUID
C10_Witness ==
    /\ OfferBuilt
    /\ pc = "send"
    /\ pkt.RelayAddr = <<10, 0, 0, 254>>
    /\ pkt.TransactionID = 1
    /\ RequestGuid = Guid17(0)
    /\ resp.Options[OptUidGuidClientIdentifier] = Guid17(0)

(***************************************************************************)
(* C11. End to end: a Discover with architecture code 7, no user class and *)
(* no GUID, from hardware address 00:11:22:33:44:55, passes isBootDHCP and *)
(* validateDHCP as an EFI64 client; once the Booter has returned a spec    *)
(* and the address of the arrival interface is resolved, the loop makes    *)
(* exactly one SendDHCP call for it, on the arrival interface, with an     *)
(* Offer whose boot server name is the resolved address and whose boot     *)
(* filename is "00:11:22:33:44:55/7": the hardware address, a slash and    *)
(* the number of the firmware type the table gives for code 7.             *)
(***************************************************************************)
E2ERequest ==
    /\ pkt.Type = MsgDiscover
    /\ pkt.HardwareAddr = <<0, 17, 34, 51, 68, 85>>
    /\ DOMAIN pkt.Options = {OptClientSystem}
    /\ pkt.Options[OptClientSystem] = <<0, 7>>

E2EFilename ==
    <<"0", "0", ":", "1", "1", ":", "2", "2", ":", "3", "3", ":", "4", "4", ":",
      "5", "5", "/", "7">>

Skipped(i) == reads[i].kind = "undecodable"

C15_ReceiveSkipsUndecodable ==
    /\ pc = "recv" =>
        /\ \A i \in 1..Len(reads) : Skipped(i)
        /\ Len(reads) = nskip
        /\ err = Nil /\ pkt = ZeroPacket /\ intf = NilInterface
        /\ ret = Nil /\ trace = << >> /\ events = << >>
    /\ pc = "recvd" =>
        /\ Len(reads) >= 1
        /\ \A i \in 1..(Len(reads) - 1) : Skipped(i)
        /\ LET last == reads[Len(reads)]
           IN  /\ ~Skipped(Len(reads))
               /\ err \in {Nil, ErrRead, ErrNoInterface}
               /\ err = Nil <=> last.kind = "packet" /\ last.intf # NilInterface
               /\ err = Nil => pkt = last.pkt /\ intf = last.intf /\ pkt \in Packets
               /\ err = ErrNoInterface <=>
                      last.kind = "packet" /\ last.intf = NilInterface
               /\ err = ErrRead <=> last.kind = "error"

\* a packet was returned after an undecodable datagram was skipped
C15_Witness ==
    /\ pc = "recvd"
    /\ Len(reads) = 2
    /\ Skipped(1)
    /\ reads[2].kind = "packet"
    /\ err = Nil
    /\ pkt = reads[2].pkt
    /\ pkt.Type = MsgDiscover

(***************************************************************************)
(* C18. The "unknown firmware type" branch of offerDHCP is not reached     *)
(* from the loop: whenever validateDHCP succeeds, the firmware type it     *)
(* returns is one of X86PC, X86Ipxe, EFI32, EFI64, EFIBC, EfiArm64 and     *)
(* PixiecoreIpxe, and offerDHCP called with the Machine and firmware type  *)
(* it returned gives an offer and no error, for every server address; so   *)
(* the offerDHCP call of the loop never fails.                             *)
(***************************************************************************)
FirmwareTypes ==
    { FirmwareX86PC, FirmwareX86Ipxe, FirmwareEFI32, FirmwareEFI64, FirmwareEFIBC,
      FirmwareEfiArm64, FirmwarePixiecoreIpxe }

ServerAddresses ==
    { <<10, 0, 0, 1>>, <<169, 254, 1, 1>>, <<127, 0, 0, 1>>, <<192, 168, 1, 5>> }

C18_OfferNeverFails ==
    /\ Validated /\ trace[2].res = "ok" =>
        /\ fwtype \in FirmwareTypes
        /\ \A ip \in ServerAddresses :
            /\ offerDHCP(pkt, mach, ip, fwtype).err = Nil
            /\ offerDHCP(pkt, mach, ip, fwtype).pkt.Type = MsgOffer
    /\ Len(trace) >= 5 => trace[5] = Call("offerDHCP", "ok")
    /\ pc = "send" => err = Nil /\ resp.Type = MsgOffer

\* an offer was built for an EFI client on ARM64
C18_Witness ==
    /\ OfferBuilt
    /\ pc = "send"
    /\ fwtype = FirmwareEfiArm64
    /\ Code93 = 11
    /\ resp.BootFilename = TftpFilename(pkt.HardwareAddr, FirmwareEfiArm64)

(***************************************************************************)
(* portableConn.SendDHCP run on its own, on packets of every transmission  *)
(* strategy and on packets Marshal refuses.                                *)
(***************************************************************************)
SendInterfaces == Interfaces \cup { [Index |-> 3, Name |-> "eth1"] }

\* a boot filename and an option value longer than the wire format holds
LongFilename == [i \in 1..129 |-> "a"]
LongOption == OptVendorSpecific :> [i \in 1..256 |-> 0]

SendPackets ==
    { [ZeroPacket EXCEPT
          !.Type = MsgOffer,
          !.Broadcast = bc,
          !.HardwareAddr = <<222, 173, 190, 239, 0, 1>>,
          !.RelayAddr = r,
          !.ClientAddr = c,
          !.YourAddr = y,
          !.BootFilename = f,
          !.Options = o] :
        bc \in BOOLEAN,
        r \in RelayAddrs,
        c \in { << >>, <<10, 0, 0, 7>> },
        y \in { << >>, <<10, 0, 0, 8>> },
        f \in { << >>, <<"a">>, LongFilename },
        o \in { NoOptions, OptServerIdentifier :> <<10, 0, 0, 1>>, LongOption } }

InitSend ==
    /\ LoopInit /\ ResolverIdle /\ TftpIdle /\ ClientIdle
    /\ out \in [pkt : SendPackets, intf : SendInterfaces]
    /\ wire = << >>
    /\ sendRet = << >>

\* SendDHCP(out.pkt, out.intf), from the call to the return
Send ==
    /\ sendRet = << >>
    /\ \E werr \in {Nil, ErrWrite} :
        LET r == SendDHCP(out.pkt, out.intf, txType(out.pkt), werr)
        IN  /\ wire' = wire \o r.writes
            /\ sendRet' = <<r.err>>
    /\ UNCHANGED <<out, loopVars, resolverVars, tftpVars, clientVars>>

NextSend == Send

SpecSend == InitSend /\ [][NextSend]_vars

(***************************************************************************)
(* C16. SendDHCP writes the packet once, to the destination its            *)
(* transmission strategy gives: broadcast, to 255.255.255.255 port 68 on   *)
(* the given interface; relay, to the packet's relay address port 67;      *)
(* client address, to the packet's client address port 68; hardware        *)
(* address, as a broadcast, to 255.255.255.255 port 68 on the given        *)
(* interface. It returns what the write returned. When Marshal fails it    *)
(* returns Marshal's error and writes nothing.                             *)
(***************************************************************************)
C16_SendDestination ==
    /\ sendRet = << >> => wire = << >>
    /\ sendRet # << >> =>
        LET p == out.pkt
            tx == txType(p)
        IN  IF Marshal(p).err # Nil
            THEN sendRet = <<Marshal(p).err>> /\ wire = << >>
            ELSE /\ sendRet[1] \in {Nil, ErrWrite}
                 /\ Len(wire) = 1
                 /\ wire[1].b = <<p>>
                 /\ tx \in {txBroadcast, txRelayAddr, txClientAddr, txHardwareAddr}
                 /\ tx = txBroadcast =>
                        /\ wire[1].IP = <<255, 255, 255, 255>>
                        /\ wire[1].Port = 68
                        /\ wire[1].IfIndex = out.intf.Index
                 /\ tx = txRelayAddr =>
                        /\ wire[1].IP = p.RelayAddr
                        /\ wire[1].Port = 67
                 /\ tx = txClientAddr =>
                        /\ wire[1].IP = p.ClientAddr
                        /\ wire[1].Port = 68
                 /\ tx = txHardwareAddr =>
                        /\ wire[1].IP = <<255, 255, 255, 255>>
                        /\ wire[1].Port = 68
                        /\ wire[1].IfIndex = out.intf.Index

\* a packet for a relay was written to port 67 of the relay
C16_Witness ==
    /\ sendRet = <<Nil>>
    /\ txType(out.pkt) = txRelayAddr
    /\ out.pkt.RelayAddr = <<10, 0, 0, 254>>
    /\ Len(wire) = 1
    /\ wire[1].IP = <<10, 0, 0, 254>>
    /\ wire[1].Port = 67

(***************************************************************************)
(* interfaceIP run on its own, on every list of at most MaxAddrs of these  *)
(* interface addresses.                                                    *)
(***************************************************************************)
AddrGlobal2 == [net |-> "IPNet", ip |-> <<192, 168, 1, 10>>]
AddrLinkLocal2 == [net |-> "IPNet", ip |-> <<169, 254, 7, 7>>]
AddrLoopback2 == [net |-> "IPNet", ip |-> <<127, 0, 0, 2>>]
AddrMulticast == [net |-> "IPNet", ip |-> <<224, 0, 0, 1>>]

ResolverAddrs ==
    { AddrLoopback, AddrLoopback2, AddrLinkLocal, AddrLinkLocal2, AddrGlobal,
      AddrGlobal2, AddrV6, AddrMapped, AddrNotIPNet, AddrMulticast }

ResolverAddrLists == UNION { [1..n -> ResolverAddrs] : n \in 0..MaxAddrs }

InitResolver ==
    /\ LoopInit /\ SendIdle /\ TftpIdle /\ ClientIdle
    /\ ifAddrs \in ResolverAddrLists
    /\ resolved = << >>

\* intf.Addrs() fails
ResolveAddrsError ==
    /\ resolved = << >>
    /\ resolved' = <<[ip |-> << >>, err |-> ErrAddrs]>>
    /\ UNCHANGED <<ifAddrs, loopVars, sendVars, tftpVars, clientVars>>

\* intf.Addrs() returns ifAddrs
Resolve ==
    /\ resolved = << >>
    /\ resolved' = <<interfaceIP(ifAddrs)>>
    /\ UNCHANGED <<ifAddrs, loopVars, sendVars, tftpVars, clientVars>>

NextResolver == ResolveAddrsError \/ Resolve

SpecResolver == InitResolver /\ [][NextResolver]_vars

(***************************************************************************)
(* C14. Tier order of interfaceIP. Of the addresses of the interface that  *)
(* are IPv4 (entries of type *net.IPNet whose IP has a 4-byte form), in    *)
(* the order of the list: the result is the first global unicast one if    *)
(* there is any, wherever it is in the list; otherwise the first           *)
(* link-local unicast one if there is any; otherwise the first loopback    *)
(* one; and it is the "no usable unicast address" error exactly when none  *)
(* of them is in one of the three tiers. The other entries of the list     *)
(* have no effect on the result.                                           *)
(***************************************************************************)
GlobalUnicasts == { <<10, 0, 0, 1>>, <<192, 168, 1, 10>>, <<192, 168, 1, 5>> }
LinkLocals == { <<169, 254, 1, 1>>, <<169, 254, 7, 7>> }
Loopbacks == { <<127, 0, 0, 1>>, <<127, 0, 0, 2>> }

RECURSIVE IPv4Of(_)
\* the IPv4 addresses of a list of interface addresses, in 4-byte form
IPv4Of(list) ==
    IF list = << >> THEN << >>
    ELSE LET a == Head(list)
             ip == IF Len(a.ip) = 4 THEN a.ip ELSE SubSeq(a.ip, 13, 16)
             isV4 ==
                /\ a.net = "IPNet"
                /\ \/ Len(a.ip) = 4
                   \/ SubSeq(a.ip, 1, 12) = <<0, 0, 0, 0, 0, 0, 0, 0, 0, 0, 255, 255>>
         IN  (IF isV4 THEN <<ip>> ELSE << >>) \o IPv4Of(Tail(list))

Among(seq, S) == {i \in 1..Len(seq) : seq[i] \in S}
FirstAmong(seq, S) ==
    seq[CHOOSE i \in Among(seq, S) : \A j \in Among(seq, S) : i <= j]

NoAddressError == "no usable unicast address configured on interface"

C14_TierOrder ==
    resolved # << >> /\ resolved[1].err # ErrAddrs =>
        LET v4 == IPv4Of(ifAddrs)
            r == resolved[1]
        IN  /\ r.err \in {Nil, NoAddressError}
            /\ r.err = NoAddressError <=>
                    Among(v4, GlobalUnicasts \cup LinkLocals \cup Loopbacks) = {}
            /\ r.err = NoAddressError => r.ip = << >>
            /\ Among(v4, GlobalUnicasts) # {} => r.ip = FirstAmong(v4, GlobalUnicasts)
            /\ Among(v4, GlobalUnicasts) = {} /\ Among(v4, LinkLocals) # {} =>
                    r.ip = FirstAmong(v4, LinkLocals)
            /\ Among(v4, GlobalUnicasts \cup LinkLocals) = {}
                    /\ Among(v4, Loopbacks) # {} =>
                    r.ip = FirstAmong(v4, Loopbacks)
            /\ r = interfaceIP([i \in 1..Len(v4) |-> [net |-> "IPNet", ip |-> v4[i]]])

\* the global unicast address was chosen, which comes after a loopback and a
\* link-local address
C14_Witness ==
    /\ ifAddrs = <<AddrLoopback, AddrLinkLocal, AddrGlobal2>>
    /\ resolved = <<[ip |-> <<192, 168, 1, 10>>, err |-> Nil]>>

(***************************************************************************)
(* The TFTP handlers of the server (tftp.go). A path is a sequence of      *)
(* characters. An error is [msg, arg]: the format of its message and the   *)
(* text formatted into it; NoError is the nil error.                       *)
(***************************************************************************)
NoError == [msg |-> "<nil>", arg |-> << >>]
Error(msg, arg) == [msg |-> msg, arg |-> arg]

HexUpper ==
    <<"0", "1", "2", "3", "4", "5", "6", "7", "8", "9", "A", "B", "C", "D", "E", "F">>

\* the value of a hexadecimal digit, -1 for another character
HexValue(c) ==
    IF \E i \in 1..16 : HexDigits[i] = c
    THEN (CHOOSE i \in 1..16 : HexDigits[i] = c) - 1
    ELSE IF \E i \in 1..16 : HexUpper[i] = c
    THEN (CHOOSE i \in 1..16 : HexUpper[i] = c) - 1
    ELSE -1

\* the value of a decimal digit, -1 for another character
DecValue(c) ==
    IF \E i \in 1..10 : DecDigits[i] = c
    THEN (CHOOSE i \in 1..10 : DecDigits[i] = c) - 1
    ELSE -1

\* fmt "%d" of an integer
FormatInt(n) == IF n < 0 THEN <<"-">> \o Itoa(-n) ELSE Itoa(n)

RECURSIVE Split(_)
\* strings.Split(s, "/")
Split(s) ==
    LET slashes == {i \in 1..Len(s) : s[i] = "/"}
    IN  IF slashes = {} THEN <<s>>
        ELSE LET i == Min(slashes)
             IN  <<SubSeq(s, 1, i - 1)>> \o Split(SubSeq(s, i + 1, Len(s)))

\* net.ParseMAC: 6, 8 or 20 bytes, as pairs of hexadecimal digits separated
\* by ":" or by "-", or as groups of four digits separated by "."
ParseMAC(s) ==
    LET len == Len(s)
        fail == [hw |-> << >>, ok |-> FALSE]
        \* two hexadecimal digits at positions x, x + 1
        hexAt(x) == HexValue(s[x]) >= 0 /\ HexValue(s[x + 1]) >= 0
        byteAt(x) == HexValue(s[x]) * 16 + HexValue(s[x + 1])
    IN  IF len < 14 THEN fail
        ELSE IF s[3] \in {":", "-"}
        THEN LET n == (len + 1) \div 3
             IN  IF (len + 1) % 3 # 0 \/ n \notin {6, 8, 20} THEN fail
                 ELSE IF \A i \in 0..(n - 1) :
                            /\ hexAt(3 * i + 1)
                            /\ 3 * i + 3 <= len => s[3 * i + 3] = s[3]
                 THEN [hw |-> [i \in 1..n |-> byteAt(3 * (i - 1) + 1)], ok |-> TRUE]
                 ELSE fail
        ELSE IF s[5] = "."
        THEN LET n == (2 * (len + 1)) \div 5
             IN  IF (len + 1) % 5 # 0 \/ n \notin {6, 8, 20} THEN fail
                 ELSE IF \A g \in 0..((n \div 2) - 1) :
                            /\ hexAt(5 * g + 1)
                            /\ hexAt(5 * g + 3)
                            /\ 5 * g + 5 <= len => s[5 * g + 5] = s[5]
                 THEN [hw |-> [i \in 1..n |->
                                byteAt(5 * ((i - 1) \div 2) + 1 + 2 * ((i - 1) % 2))],
                       ok |-> TRUE]
                 ELSE fail
        ELSE fail

RECURSIVE DigitsValue(_)
DigitsValue(ds) ==
    IF ds = << >> THEN 0
    ELSE 10 * DigitsValue(SubSeq(ds, 1, Len(ds) - 1)) + DecValue(ds[Len(ds)])

\* strconv.Atoi: an optional sign and one or more decimal digits. (The paths
\* of the model are shorter than the 19 characters from which Atoi can
\* report a value out of range.)
Atoi(s) ==
    LET signed == Len(s) >= 1 /\ s[1] \in {"-", "+"}
        ds == IF signed THEN Tail(s) ELSE s
    IN  IF ds = << >> \/ \E k \in 1..Len(ds) : DecValue(ds[k]) < 0
        THEN [i |-> 0, ok |-> FALSE]
        ELSE [i |-> IF s[1] = "-" THEN 0 - DigitsValue(ds) ELSE DigitsValue(ds),
              ok |-> TRUE]

\* extractInfo parsing the segments in the other order
extractInfo_SegmentsSwapped(path) ==
    LET pathElements == Split(path)
    IN  IF Len(pathElements) # 2
        THEN [mac |-> << >>, i |-> 0, err |-> Error("not found", << >>)]
        ELSE LET mac == ParseMAC(pathElements[2])
                 i == Atoi(pathElements[1])
             IN  IF ~mac.ok
                 THEN [mac |-> << >>, i |-> 0,
                       err |-> Error("invalid MAC address %q", pathElements[2])]
                 ELSE IF ~i.ok
                 THEN [mac |-> << >>, i |-> 0, err |-> Error("not found", << >>)]
                 ELSE [mac |-> mac.hw, i |-> i.i, err |-> NoError]

extractInfo(path) ==
    LET pathElements == Split(path)
    IN  IF Len(pathElements) # 2
        THEN [mac |-> << >>, i |-> 0, err |-> Error("not found", << >>)]
        ELSE LET mac == ParseMAC(pathElements[1])
                 i == Atoi(pathElements[2])
             IN  IF ~mac.ok
                 THEN [mac |-> << >>, i |-> 0,
                       err |-> Error("invalid MAC address %q", pathElements[1])]
                 ELSE IF ~i.ok
                 THEN [mac |-> << >>, i |-> 0, err |-> Error("not found", << >>)]
                 ELSE [mac |-> mac.hw, i |-> i.i, err |-> NoError]

\* handleTFTP answering with the BIOS image when none is registered under
\* the firmware type
handleTFTP_DefaultImage(images, path, clientAddr) ==
    LET r == extractInfo(path)
    IN  IF r.err # NoError
        THEN [data |-> << >>, size |-> 0, err |-> Error("unknown path %q", path),
              lookup |-> FALSE]
        ELSE IF r.i \notin DOMAIN images /\ FirmwareX86PC \notin DOMAIN images
        THEN [data |-> << >>, size |-> 0,
              err |-> Error("unknown firmware type %d", FormatInt(r.i)),
              lookup |-> TRUE]
        ELSE LET bs == IF r.i \in DOMAIN images THEN images[r.i]
                       ELSE images[FirmwareX86PC]
             IN  [data |-> bs, size |-> Len(bs), err |-> NoError, lookup |-> TRUE]

\* Server.handleTFTP with s.Ipxe = images: the bytes the returned reader
\* gives, the size and the error; lookup tells whether s.Ipxe was indexed
handleTFTP(images, path, clientAddr) ==
    LET r == extractInfo(path)
    IN  IF r.err # NoError
        THEN [data |-> << >>, size |-> 0, err |-> Error("unknown path %q", path),
              lookup |-> FALSE]
        ELSE IF r.i \notin DOMAIN images
        THEN [data |-> << >>, size |-> 0,
              err |-> Error("unknown firmware type %d", FormatInt(r.i)),
              lookup |-> TRUE]
        ELSE [data |-> images[r.i], size |-> Len(images[r.i]), err |-> NoError,
              lookup |-> TRUE]

machineStateTFTP == "TFTP"

\* one s.log("TFTP", format, ...) call: the format, the path or hardware
\* address formatted with %q, the peer, and the error
LogLine(format, text, clientAddr, e) ==
    [format |-> format, text |-> text, clientAddr |-> clientAddr, err |-> e]

\* Server.logTFTPTransfer: the log lines and the machine events it emits
logTFTPTransfer(clientAddr, path, e) ==
    LET r == extractInfo(path)
    IN  IF r.err # NoError
        THEN [log |-> <<LogLine("unable to extract mac from request:%v", << >>, "",
                                r.err)>>,
              events |-> << >>]
        ELSE IF e # NoError
        THEN [log |-> <<LogLine("Send of %q to %s failed: %s", path, clientAddr, e)>>,
              events |-> << >>]
        ELSE [log |-> <<LogLine("Sent %q to %s", MacString(r.mac), clientAddr,
                                NoError)>>,
              events |-> <<[mac |-> r.mac, state |-> machineStateTFTP,
                            format |-> "Sent iPXE to %s",
                            clientAddr |-> clientAddr]>>]

(***************************************************************************)
(* The TFTP engine run on one read request: it calls handleTFTP for the    *)
(* path and the peer, transfers what it returned, and reports the outcome  *)
(* of the transfer to logTFTPTransfer.                                     *)
(***************************************************************************)
\* paths extractInfo refuses
PathNotAPath ==
    <<"n", "o", "t", "-", "a", "-", "p", "a", "t", "h">>
PathEmpty == << >>
PathSlash ==
    <<"/">>
PathOneSegment ==
    <<"a", "a", ":", "b", "b", ":", "c", "c", ":", "d", "d", ":", "e", "e",
      ":", "f", "f">>
PathNoCode ==
    <<"a", "a", ":", "b", "b", ":", "c", "c", ":", "d", "d", ":", "e", "e",
      ":", "f", "f", "/">>
PathNoMac ==
    <<"/", "7">>
PathThreeSegments ==
    <<"a", "a", ":", "b", "b", ":", "c", "c", ":", "d", "d", ":", "e", "e",
      ":", "f", "f", "/", "7", "/", "x">>
PathEmptySegment ==
    <<"a", "a", ":", "b", "b", ":", "c", "c", ":", "d", "d", ":", "e", "e",
      ":", "f", "f", "/", "/", "7">>
PathCodeLetter ==
    <<"a", "a", ":", "b", "b", ":", "c", "c", ":", "d", "d", ":", "e", "e",
      ":", "f", "f", "/", "x">>
PathCodeTrailing ==
    <<"a", "a", ":", "b", "b", ":", "c", "c", ":", "d", "d", ":", "e", "e",
      ":", "f", "f", "/", "7", "x">>
PathCodeSignOnly ==
    <<"a", "a", ":", "b", "b", ":", "c", "c", ":", "d", "d", ":", "e", "e",
      ":", "f", "f", "/", "-">>
PathMacShort ==
    <<"a", "a", ":", "b", "b", ":", "c", "c", ":", "d", "d", ":", "e", "e",
      "/", "7">>
PathMacNotHex ==
    <<"a", "a", ":", "b", "b", ":", "c", "c", ":", "d", "d", ":", "e", "e",
      ":", "f", "g", "/", "7">>
PathMacMixed ==
    <<"a", "a", ":", "b", "b", "-", "c", "c", ":", "d", "d", ":", "e", "e",
      ":", "f", "f", "/", "7">>
PathMacBare ==
    <<"a", "a", "b", "b", "c", "c", "d", "d", "e", "e", "f", "f", "/", "7">>
PathIpxeUrl ==
    <<"t", "f", "t", "p", ":", "/", "/", "1", "0", ".", "0", ".", "0", ".",
      "1", "/", "a", "a", ":", "b", "b", ":", "c", "c", ":", "d", "d", ":",
      "e", "e", ":", "f", "f", "/", "4">>

MalformedPaths ==
    { PathNotAPath,
      PathEmpty,
      PathSlash,
      PathOneSegment,
      PathNoCode,
      PathNoMac,
      PathThreeSegments,
      PathEmptySegment,
      PathCodeLetter,
      PathCodeTrailing,
      PathCodeSignOnly,
      PathMacShort,
      PathMacNotHex,
      PathMacMixed,
      PathMacBare,
      PathIpxeUrl }

\* paths extractInfo accepts, other than the boot filenames of the offers
PathCode11 ==
    <<"a", "a", ":", "b", "b", ":", "c", "c", ":", "d", "d", ":", "e", "e",
      ":", "f", "f", "/", "1", "1">>
PathCode999 ==
    <<"a", "a", ":", "b", "b", ":", "c", "c", ":", "d", "d", ":", "e", "e",
      ":", "f", "f", "/", "9", "9", "9">>
PathCodeMinus1 ==
    <<"a", "a", ":", "b", "b", ":", "c", "c", ":", "d", "d", ":", "e", "e",
      ":", "f", "f", "/", "-", "1">>
PathCodePlus7 ==
    <<"a", "a", ":", "b", "b", ":", "c", "c", ":", "d", "d", ":", "e", "e",
      ":", "f", "f", "/", "+", "7">>
PathCode007 ==
    <<"a", "a", ":", "b", "b", ":", "c", "c", ":", "d", "d", ":", "e", "e",
      ":", "f", "f", "/", "0", "0", "7">>
PathMacUpper ==
    <<"A", "A", ":", "B", "B", ":", "C", "C", ":", "D", "D", ":", "E", "E",
      ":", "F", "F", "/", "7">>
PathMacDashes ==
    <<"a", "a", "-", "b", "b", "-", "c", "c", "-", "d", "d", "-", "e", "e",
      "-", "f", "f", "/", "7">>
PathMacDots ==
    <<"a", "a", "b", "b", ".", "c", "c", "d", "d", ".", "e", "e", "f", "f",
      "/", "7">>
PathMac8 ==
    <<"0", "2", ":", "0", "0", ":", "5", "e", ":", "1", "0", ":", "0", "0",
      ":", "0", "0", ":", "0", "0", ":", "0", "1", "/", "7">>

OtherPaths ==
    { PathCode11,
      PathCode999,
      PathCodeMinus1,
      PathCodePlus7,
      PathCode007,
      PathMacUpper,
      PathMacDashes,
      PathMacDots,
      PathMac8 }

\* the firmware types whose offer carries the boot filename "<mac>/<type>"
TftpFirmwareTypes ==
    { FirmwareX86PC, FirmwareEFI32, FirmwareEFI64, FirmwareEFIBC, FirmwareEfiArm64 }

\* the boot filenames offerDHCP writes for them
OfferedPaths == { TftpFilename(m, t) : m \in MACs, t \in TftpFirmwareTypes }

Paths == OfferedPaths \cup OtherPaths \cup MalformedPaths

Peers == { "10.0.0.7:1069", "10.0.0.8:2070" }

\* Server.Ipxe: no image, and images for some firmware types (one of them
\* empty)
ImageMaps ==
    { << >>,
      (FirmwareX86PC :> <<77, 90, 1>>) @@ (FirmwareEFI64 :> <<77, 90, 2, 2>>),
      (FirmwareX86PC :> <<77, 90, 1>>) @@ (FirmwareEFI32 :> << >>)
        @@ (FirmwareEFI64 :> <<77, 90, 2, 2>>) @@ (FirmwareEFIBC :> <<3>>)
        @@ (FirmwareEfiArm64 :> <<65, 65>>) @@ (11 :> <<11, 11, 11>>) }

\* the errors a transfer ends with
TransferErrors ==
    { Error("getting file bytes: %s", << >>), Error("sending block: timed out", << >>) }

InitTFTP ==
    /\ LoopInit /\ ResolverIdle /\ SendIdle /\ ClientIdle
    /\ Ipxe \in ImageMaps
    /\ tftpPc = "request"
    /\ request \in [path : Paths, clientAddr : Peers]
    /\ reply = << >>
    /\ transferLog = << >>
    /\ tftpLog = << >>
    /\ tftpEvents = << >>

\* ts.Handler(path, clientAddr)
Handle ==
    /\ tftpPc = "request"
    /\ reply' = <<handleTFTP(Ipxe, request.path, request.clientAddr)>>
    /\ tftpPc' = "transfer"
    /\ UNCHANGED <<Ipxe, request, transferLog, tftpLog, tftpEvents>>
    /\ UNCHANGED <<loopVars, resolverVars, sendVars, clientVars>>

\* ts.TransferLog(clientAddr, path, err) at the end of the transfer: err is
\* not nil when the handler failed, and nil or not when it gave a reader
Transfer ==
    /\ tftpPc = "transfer"
    /\ \E e \in TransferErrors \cup {NoError} :
        /\ reply[1].err # NoError => e # NoError
        /\ transferLog' = Append(transferLog,
                                 [clientAddr |-> request.clientAddr,
                                  path |-> request.path, err |-> e])
        /\ LET r == logTFTPTransfer(request.clientAddr, request.path, e)
           IN  /\ tftpLog' = tftpLog \o r.log
               /\ tftpEvents' = tftpEvents \o r.events
    /\ tftpPc' = "done"
    /\ UNCHANGED <<Ipxe, request, reply>>
    /\ UNCHANGED <<loopVars, resolverVars, sendVars, clientVars>>

NextTFTP == Handle \/ Transfer

SpecTFTP == InitTFTP /\ [][NextTFTP]_vars

(***************************************************************************)
(* C12, as stated. The path grammar of the dispatcher: a path is accepted  *)
(* exactly when it has two "/"-separated segments, the first parses as a   *)
(* MAC address and the second parses as an integer that is not negative;   *)
(* every other path fails with the not-found error of the dispatcher       *)
(* (handleTFTP's "unknown path") and no image is looked up for it.         *)
(***************************************************************************)
GrammarAccepts(path) ==
    /\ Len(Split(path)) = 2
    /\ ParseMAC(Split(path)[1]).ok
    /\ Atoi(Split(path)[2]).ok
    /\ Atoi(Split(path)[2]).i >= 0

C12_PathGrammar ==
    reply # << >> =>
        /\ extractInfo(request.path).err = NoError <=> GrammarAccepts(request.path)
        /\ ~GrammarAccepts(request.path) =>
            /\ reply[1].err = Error("unknown path %q", request.path)
            /\ ~reply[1].lookup

(***************************************************************************)
(* C13. Image lookup. For a path extractInfo accepts, "<mac>/<code>":      *)
(* when Server.Ipxe has an image under <code>, handleTFTP returns a reader *)
(* of exactly its bytes, its length and no error; when it has none,        *)
(* handleTFTP fails with "unknown firmware type <code>". For a path        *)
(* extractInfo refuses ("not-a-path") it fails with "unknown path". The    *)
(* result is the same for every MAC segment and every peer, and no step    *)
(* changes Server.Ipxe.                                                    *)
(***************************************************************************)
ImageLookup ==
    reply # << >> =>
        LET r == reply[1]
            x == extractInfo(request.path)
        IN  /\ x.err = NoError /\ x.i \in DOMAIN Ipxe =>
                /\ r.err = NoError
                /\ r.data = Ipxe[x.i]
                /\ r.size = Len(Ipxe[x.i])
            /\ x.err = NoError /\ x.i \notin DOMAIN Ipxe =>
                /\ r.err = Error("unknown firmware type %d", FormatInt(x.i))
                /\ r.data = << >>
            /\ x.err # NoError =>
                /\ r.err = Error("unknown path %q", request.path)
                /\ r.data = << >>
            /\ request.path = PathNotAPath => r.err.msg = "unknown path %q"
            /\ request.path = PathCode999 =>
                r.err = Error("unknown firmware type %d", <<"9", "9", "9">>)
            /\ request.path = PathCode11 /\ 11 \in DOMAIN Ipxe =>
                r.data = <<11, 11, 11>> /\ r.size = 3
            /\ x.err = NoError =>
                \A m \in MACs, c \in Peers :
                    handleTFTP(Ipxe, MacString(m) \o <<"/">> \o FormatInt(x.i), c) = r

C13_ImageLookup == [] ImageLookup /\ [][Ipxe' = Ipxe]_vars

\* the image registered under code 11 was returned
C13_Witness ==
    /\ request.path = PathCode11
    /\ reply # << >>
    /\ reply[1].err = NoError
    /\ reply[1].data = <<11, 11, 11>>
    /\ tftpPc = "done"

(***************************************************************************)
(* C17, as stated. For every transfer the engine reports (peer, path,      *)
(* error or nil), whether or not the path matches the path grammar,        *)
(* logTFTPTransfer emits exactly one outcome line: for a completed         *)
(* transfer it carries the peer and the hardware address decoded from the  *)
(* path, for a failed transfer the path and the error of the transfer.     *)
(***************************************************************************)
C17_OneOutcomeEvent ==
    tftpPc = "done" =>
        /\ Len(transferLog) = 1
        /\ Len(tftpLog) = 1
        /\ LET t == transferLog[1]
               l == tftpLog[1]
           IN  /\ t.err = NoError =>
                    /\ l.clientAddr = t.clientAddr
                    /\ l.text = MacString(extractInfo(t.path).mac)
               /\ t.err # NoError =>
                    /\ l.text = t.path
                    /\ l.err = t.err

(***************************************************************************)
(* C20. Round trip of the boot filename: for every hardware address m and  *)
(* every firmware type t of X86PC, EFI32, EFI64, EFIBC and EfiArm64, the   *)
(* boot filename offerDHCP writes is a path extractInfo accepts, with the  *)
(* same hardware address m and the number of t; so handleTFTP, asked for   *)
(* it, returns the image registered under t, or the "unknown firmware      *)
(* type" error when none is, and never the "unknown path" error.           *)
(***************************************************************************)
OfferedFilename(m, t) ==
    offerDHCP([ZeroPacket EXCEPT !.Type = MsgDiscover, !.HardwareAddr = m],
              [MAC |-> m, Arch |-> ArchX64], <<10, 0, 0, 1>>, t).pkt.BootFilename

C20_FilenameRoundTrip ==
    \A m \in MACs, t \in TftpFirmwareTypes :
        request.path = OfferedFilename(m, t) =>
            /\ extractInfo(request.path).err = NoError
            /\ extractInfo(request.path).mac = m
            /\ extractInfo(request.path).i = t
            /\ reply # << >> =>
                /\ reply[1].lookup
                /\ reply[1].err.msg # "unknown path %q"
                /\ t \in DOMAIN Ipxe =>
                    /\ reply[1].err = NoError
                    /\ reply[1].data = Ipxe[t]
                    /\ reply[1].size = Len(Ipxe[t])
                /\ t \notin DOMAIN Ipxe =>
                    reply[1].err = Error("unknown firmware type %d", Itoa(t))

\* the filename offered to the EFI64 client 00:11:22:33:44:55 was asked for
\* and its image returned
C20_Witness ==
    /\ request.path = OfferedFilename(<<0, 17, 34, 51, 68, 85>>, FirmwareEFI64)
    /\ request.path = E2EFilename
    /\ reply # << >>
    /\ reply[1].err = NoError
    /\ reply[1].data = <<77, 90, 2, 2>>

(***************************************************************************)
(* serveDHCP serving one booting client. The client runs its firmware (a   *)
(* PXE ROM, which sends no user class, or an iPXE of its own, which sends  *)
(* "iPXE"); when it receives an offer naming a TFTP boot file it loads     *)
(* that file, the iPXE image the server supplies, which sends the user     *)
(* class "pixiecore"; when it receives an offer naming an HTTP URL it      *)
(* boots from it and sends no more requests. It repeats its request as     *)
(* long as no offer reaches it.                                            *)
(***************************************************************************)
ClientMACs == { <<0, 17, 34, 51, 68, 85>>, <<184, 39, 235, 0, 0, 1>> }
ClientArchs == { <<0, 0>>, <<0, 6>>, <<0, 7>>, <<0, 9>>, <<0, 11>> }

Clients == [mac : ClientMACs, arch : ClientArchs, runs : {"firmware", "iPXE"}]

\* the Discover the client sends
ClientRequest(c) ==
    [ZeroPacket EXCEPT
        !.Type = MsgDiscover,
        !.HardwareAddr = c.mac,
        !.Options =
            (OptClientSystem :> c.arch)
            @@ CASE c.runs = "iPXE" -> OptUserClass :> StrIPXE
                 [] c.runs = "pixiecore" -> OptUserClass :> StrPixiecore
                 [] OTHER -> NoOptions]

\* what the client does with the offer p
ClientBoots(c, p) ==
    [c EXCEPT !.runs = IF HasPrefix(p.BootFilename, StrHttpScheme) THEN "booted"
                       ELSE "pixiecore"]

\* an offer sent to the client, with the user class of the request it answers
OfferSent(req, p) ==
    [class |-> OptionValue(req.Options, OptUserClass),
     filename |-> p.BootFilename,
     name |-> p.BootServerName,
     vendor |-> OptVendorSpecific \in DOMAIN p.Options]

InitClient ==
    /\ LoopInit /\ ResolverIdle /\ SendIdle /\ TftpIdle
    /\ client \in Clients
    /\ offers = << >>

notClient == <<resolverVars, sendVars, tftpVars>>

\* a request of the client arrives
ClientDiscover ==
    /\ client.runs # "booted"
    /\ Len(offers) < MaxOffers
    /\ RecvPacketOf({ClientRequest(client)})
    /\ UNCHANGED <<clientVars, notClient>>

\* a request of the client arrives with an interface index that names no
\* interface
ClientDiscoverNoInterface ==
    /\ client.runs # "booted"
    /\ Len(offers) < MaxOffers
    /\ RecvNoInterfaceOf({ClientRequest(client)})
    /\ UNCHANGED <<clientVars, notClient>>

\* the offer is sent; it reaches the client or is lost
ClientOffer ==
    /\ ServeSend
    /\ IF err' # Nil THEN UNCHANGED clientVars
       ELSE /\ offers' = Append(offers, OfferSent(pkt, resp))
            /\ \E received \in BOOLEAN :
                client' = IF received THEN ClientBoots(client, resp) ELSE client
    /\ UNCHANGED notClient

NextClient ==
    \/ ClientDiscover
    \/ ClientDiscoverNoInterface
    \/ ClientOffer
    \/ RecvReadError /\ UNCHANGED <<clientVars, notClient>>
    \/ RecvUndecodable /\ UNCHANGED <<clientVars, notClient>>
    \/ ServeRecv /\ UNCHANGED <<clientVars, notClient>>
    \/ ServeIsBoot /\ UNCHANGED <<clientVars, notClient>>
    \/ ServeValidate /\ UNCHANGED <<clientVars, notClient>>
    \/ ServeBootSpec /\ UNCHANGED <<clientVars, notClient>>
    \/ ServeAddrsError /\ UNCHANGED <<clientVars, notClient>>
    \/ ServeInterfaceIP /\ UNCHANGED <<clientVars, notClient>>
    \/ ServeOffer /\ UNCHANGED <<clientVars, notClient>>
    \/ ServeContinue /\ UNCHANGED <<clientVars, notClient>>

SpecClient == InitClient /\ [][NextClient]_vars

(***************************************************************************)
(* C19. The chainload does not loop. Every offer that answers a request    *)
(* with user class "pixiecore", whatever the architecture code among 0, 6, *)
(* 7, 9 and 11, has the HTTP URL as boot filename, no boot server name and *)
(* no vendor-specific option; every other offer names a TFTP boot file.    *)
(* Hence the offers sent to a client that goes from its firmware to the    *)
(* supplied iPXE are TFTP offers followed by HTTP offers: once the client  *)
(* runs the supplied iPXE, no step sends it a TFTP offer, and no TFTP      *)
(* offer comes after an HTTP offer.                                        *)
(***************************************************************************)
IsHttpOffer(o) == HasPrefix(o.filename, StrHttpScheme)
IsTftpOffer(o) ==
    \E t \in FirmwareTypes :
        \/ o.filename = MacString(client.mac) \o <<"/">> \o Itoa(t)
        \/ \E ip \in ServerAddresses :
                o.filename = StrTftpScheme \o IPString(ip) \o <<"/">>
                             \o MacString(client.mac) \o <<"/">> \o Itoa(t)

OffersInOrder ==
    /\ \A i \in 1..Len(offers) :
        /\ IsHttpOffer(offers[i]) \/ IsTftpOffer(offers[i])
        /\ offers[i].class = StrPixiecore <=> IsHttpOffer(offers[i])
        /\ IsHttpOffer(offers[i]) <=> ~IsTftpOffer(offers[i])
        /\ IsHttpOffer(offers[i]) =>
            /\ offers[i].name = << >>
            /\ ~offers[i].vendor
            /\ \E ip \in ServerAddresses, a \in {ArchIA32, ArchX64, ArchArm64} :
                offers[i].filename =
                    StrHttpScheme \o IPString(ip) \o <<":">> \o Itoa(HTTPPort)
                    \o StrIpxePath \o Itoa(a) \o StrMacParam \o MacString(client.mac)
    /\ \A i, j \in 1..Len(offers) :
        i < j /\ IsHttpOffer(offers[i]) => IsHttpOffer(offers[j])
    /\ client.runs = "firmware" => offers = << >> \/ ~IsHttpOffer(offers[Len(offers)])
    /\ client.runs = "pixiecore" => \E i \in 1..Len(offers) : IsTftpOffer(offers[i])
    /\ client.runs = "booted" => IsHttpOffer(offers[Len(offers)])

NoTftpOfferToPixiecore ==
    client.runs = "pixiecore" /\ offers' # offers =>
        /\ Len(offers') = Len(offers) + 1
        /\ IsHttpOffer(offers'[Len(offers')])
        /\ ~IsTftpOffer(offers'[Len(offers')])

C19_NoChainloadLoop == [] OffersInOrder /\ [][NoTftpOfferToPixiecore]_vars

\* a TFTP offer and then the HTTP offer were sent, and the client booted
C19_Witness ==
    /\ client.runs = "booted"
    /\ Len(offers) = 2
    /\ IsTftpOffer(offers[1])
    /\ offers[1].class = << >>
    /\ IsHttpOffer(offers[2])
    /\ offers[2].class = StrPixiecore

====
